---- MODULE Spec2Model ----
(***************************************************************************)
(* Batch rename tool (src/main.py): the preview plan of BatchRenameApp,    *)
(* its conflict detector, and the RenameWorker thread that applies the     *)
(* selected part of the plan to the directory.                             *)
(*                                                                         *)
(* File names.  A name is a record [base, tags, ext]: the string           *)
(*     base ++ tag_1 ++ ... ++ tag_k ++ ext                                *)
(* where tag 0 is the text "_backup" and tag n >= 1 is the text "_n".      *)
(* base holds no underscore and ext is "" or starts with a dot, so two     *)
(* records are equal exactly when the strings they stand for are equal,    *)
(* Path.stem is base ++ tags and Path.suffix is ext.                       *)
(*                                                                         *)
(* The directory.  disk is a function from the names of the regular files  *)
(* in the folder to their content; a content is a number naming the file   *)
(* it came from.                                                           *)
(*                                                                         *)
(* Planning.  The parts of the plan computation that work on the text of   *)
(* a name (clean_filename, generate_new_names, the sort keys) are modelled *)
(* on names that are sequences of one-character strings, over a folder     *)
(* that maps each name to its os.stat record.                              *)
(***************************************************************************)
EXTENDS Integers, Sequences, FiniteSets, TLC

VARIABLES
    disk,               \* the folder: name -> content
    filtered_files,     \* BatchRenameApp.filtered_files: the plan's sources, in plan order
    gen_names,          \* what generate_new_names() returns under the current configuration
    checked,            \* the check boxes of the preview table, row by row
    conflicts,          \* the status column of the preview table (check_conflicts)
    backup_original,    \* check box "backup original"
    overwrite_existing, \* check box "overwrite existing"
    case_sensitive,     \* check box "case sensitive"
    timer_active,       \* refresh_timer is running (a debounced refresh is pending)
    execute_enabled,    \* execute_btn.isEnabled()
    sel_files,          \* execute_rename: selected_files
    sel_names,          \* execute_rename: selected_new_names
    w_files,            \* RenameWorker.file_list
    w_names,            \* RenameWorker.new_names
    w_backup,           \* RenameWorker.backup_enabled
    w_overwrite,        \* RenameWorker.overwrite_enabled
    total_files,        \* RenameWorker.run: total_files
    pc,                 \* where the user and the worker are
    i,                  \* RenameWorker.run: the entry being processed (1-based)
    new_path,           \* RenameWorker.run: new_path of the current entry
    success_count,      \* RenameWorker.run: success_count
    progress,           \* the progress_updated events emitted so far
    finished,           \* the finished events emitted so far
    entry,              \* observation: the current entry (pre, mid: the folder when
                        \*   the entry started and when its backup step ended)
    log,                \* observation: one record per entry the loop has left
    ops,                \* observation: the file operations performed, in order
    removed,            \* observation: number of files removed by other programs
    ui,                 \* the window the user faces: the main window, or a modal dialog
    run_conflicts,      \* execute_rename: conflicts
    batches,            \* observation: number of workers started
    folder,             \* planning: the folder, name (text) -> os.stat record
    file_list,          \* BatchRenameApp.file_list: what scan_files left
    scan_error,         \* scan_files showed its warning box
    sort_option,        \* sort_combo.currentText()
    extension_filter,   \* extension_filter.text(), as the list of its comma-separated parts
    enable_cleanup,     \* check box "enable cleanup"
    cleanup_mode,       \* cleanup_mode.currentText()
    cleanup_rules,      \* cleanup_rules.toPlainText(), as the list of its lines
    stem,               \* clean_filename: the argument of the call
    cleaned,            \* clean_filename: the value returned
    custom_format,      \* custom_format.text(), as the list of its parts
    start_number,       \* start_number.value()
    number_digits,      \* number_digits.value()
    keep_extension,     \* check box "keep extension"
    format_vars,        \* generate_new_names: format_vars of every entry
    raised              \* the exception that left the last handler, "none" if it returned

vars == << disk, filtered_files, gen_names, checked, conflicts, backup_original,
           overwrite_existing, case_sensitive, timer_active, execute_enabled,
           sel_files, sel_names, w_files, w_names, w_backup, w_overwrite,
           total_files, pc, i,
           new_path, success_count, progress, finished, entry, log, ops, removed,
           ui, run_conflicts, batches,
           folder, file_list, scan_error, sort_option, extension_filter,
           enable_cleanup, cleanup_mode, cleanup_rules, stem, cleaned,
           custom_format, start_number, number_digits, keep_extension,
           format_vars, raised >>

appVars == << filtered_files, gen_names, checked, conflicts, backup_original,
              overwrite_existing, case_sensitive, timer_active >>

workerArgs == << w_files, w_names, w_backup, w_overwrite, total_files >>

\* the dialogs of execute_rename and rename_finished
sessionVars == << ui, run_conflicts, batches >>

\* the file list and the widgets of the filter, rename and cleanup groups
planVars == << folder, file_list, scan_error, sort_option, extension_filter,
               enable_cleanup, cleanup_mode, cleanup_rules, stem, cleaned,
               custom_format, start_number, number_digits, keep_extension,
               format_vars, raised >>

-----------------------------------------------------------------------------
(* Bounds *)

\* longest stem given to clean_filename
MaxStem == 3

\* most lines in the rules box
MaxRules == 2

\* most files in a scanned folder
MaxFolder == 3

\* longest plan (number of rows of the preview table)
MaxFiles == 2

\* selected files another program may remove while the confirmation dialogs are open
MaxRemoved == 1

\* largest batch whose progress events are followed
MaxTotal == 7

\* most workers started in a session
MaxBatches == 2

-----------------------------------------------------------------------------
(* Names *)

Nm(base, tags, ext) == [base |-> base, tags |-> tags, ext |-> ext]

\* no file: the value of a path variable that has not been assigned
NoName == Nm("", << >>, "")

\* f"{p.stem}_backup{p.suffix}" when t = 0, f"{p.stem}_{t}{p.suffix}" otherwise
AddTag(p, t) == [p EXCEPT !.tags = Append(p.tags, t)]

\* str.lower() of a one-letter base name or of an extension
LowerStr(s) ==
    CASE s = "A" -> "a"
      [] s = "B" -> "b"
      [] s = ".TXT" -> ".txt"
      [] OTHER -> s

\* str.lower() of a file name (tags hold digits, "_" and lower-case letters)
Lower(p) == [p EXCEPT !.base = LowerStr(p.base), !.ext = LowerStr(p.ext)]

\* Path.exists() for a path of the folder
Exists(d, p) == p \in DOMAIN d

\* the folder after a file is created or replaced at p with content c
Put(d, p, c) == [q \in DOMAIN d \cup {p} |-> IF q = p THEN c ELSE d[q]]

\* the folder after the file at p is removed
Del(d, p) == [q \in DOMAIN d \ {p} |-> d[q]]

-----------------------------------------------------------------------------
(* RenameWorker.run: the pure parts *)

\* the while loop of the backup: the first free of base_1, base_2, ...
RECURSIVE ProbeBackup(_, _, _)
ProbeBackup(d, first, counter) ==
    IF Exists(d, AddTag(first, counter))
    THEN ProbeBackup(d, first, counter + 1)
    ELSE AddTag(first, counter)

BackupPathNoProbe(d, old_file) == AddTag(old_file, 0)

\* backup_path: <stem>_backup<suffix>, or the first free <stem>_backup_<counter><suffix>
BackupPath(d, old_file) ==
    IF Exists(d, AddTag(old_file, 0))
    THEN ProbeBackup(d, AddTag(old_file, 0), 1)
    ELSE AddTag(old_file, 0)

\* the while loop of the no-overwrite branch, entered with cur = the target
\* path and counter = 1: it stops at a path that is free or is old_file
RECURSIVE ProbeTarget(_, _, _, _, _)
ProbeTarget(d, old_file, original_new_path, cur, counter) ==
    IF Exists(d, cur) /\ cur # old_file
    THEN ProbeTarget(d, old_file, original_new_path,
                     AddTag(original_new_path, counter), counter + 1)
    ELSE cur

ResolvePathNoProbe(d, old_file, target) == target

\* new_path after the no-overwrite branch
ResolvePath(d, old_file, target) == ProbeTarget(d, old_file, target, target, 1)

\* the overwrite branch deletes the target
MustUnlink(d, old_file, target) == Exists(d, target) /\ target # old_file

\* int((i + 1) / total_files * 100), k = i + 1.  The quotient is a float; for
\* the batch sizes of the model (total_files < 40) the result is the integer
\* quotient of 100 * k by total_files.
Progress(k, total) == (k * 100) \div total

AbortBatch(k, n) == "finish"

\* the for loop goes on with the next entry, or ends
NextEntry(k, n) == IF k < n THEN "backup" ELSE "finish"

\* "except Exception" inside the loop: print, and the loop goes on
AfterException(k, n) == NextEntry(k, n)

-----------------------------------------------------------------------------
(* BatchRenameApp: the pure parts *)

SelectedRowsReversed(chk) ==
    LET rows == SelectSeq([k \in 1..Len(chk) |-> k], LAMBDA k : chk[k])
    IN  [j \in 1..Len(rows) |-> rows[Len(rows) + 1 - j]]

\* get_selected_files: the rows whose check box is checked, in row order
SelectedRows(chk) == SelectSeq([k \in 1..Len(chk) |-> k], LAMBDA k : chk[k])

\* get_selected_files: selected_files (or selected_new_names, from new_names)
Pick(list, chk) == [j \in 1..Len(SelectedRows(chk)) |-> list[SelectedRows(chk)[j]]]

\* name_counts[name]: the rows whose new name is name
Indices(new_names, name) == {k \in 1..Len(new_names) : new_names[k] = name}

CheckConflictsLaterOnly(new_names, existing_files, overwrite) ==
    [k \in 1..Len(new_names) |->
        LET indices == Indices(new_names, new_names[k])
        IN  IF Cardinality(indices) > 1
            THEN IF \E j \in indices : j < k THEN "duplicate" ELSE "none"
            ELSE IF new_names[k] \in existing_files /\ ~overwrite
                 THEN "exists" ELSE "none"]

\* check_conflicts: row -> "duplicate" | "exists" | "none" (none: the row is
\* not a key of the dict)
CheckConflicts(new_names, existing_files, overwrite) ==
    [k \in 1..Len(new_names) |->
        LET indices == Indices(new_names, new_names[k])
        IN  IF Cardinality(indices) > 1
            THEN "duplicate"
            ELSE IF new_names[k] \in existing_files /\ ~overwrite
                 THEN "exists" ELSE "none"]

-----------------------------------------------------------------------------
(* Text: a str is a sequence of one-character strings *)

IsDigit(c) == c \in {"0", "1", "2", "3", "4", "5", "6", "7", "8", "9"}

IsUpper(c) == c \in {"A", "B", "T", "U"}

IsLetter(c) == IsUpper(c) \/ c \in {"a", "b", "t", "u"}

\* \w
IsWord(c) == IsLetter(c) \/ IsDigit(c) \/ c = "_"

\* \s
IsSpace(c) == c = " "

\* [-_]
IsSep(c) == c \in {"-", "_"}

\* [-_\s]
IsSepOrSpace(c) == IsSep(c) \/ IsSpace(c)

\* str.lower(), one character
LowerChar(c) ==
    CASE c = "A" -> "a" [] c = "B" -> "b" [] c = "T" -> "t" [] c = "U" -> "u"
      [] OTHER -> c

\* str.lower()
LowerText(s) == [k \in 1..Len(s) |-> LowerChar(s[k])]

\* equality of two texts under re.IGNORECASE
EqFold(s, t) == LowerText(s) = LowerText(t)

\* s[p-1 : p-1+n]
Slice(s, p, n) == SubSeq(s, p, p + n - 1)

\* a character class of the patterns, by name
InClass(cls, c) ==
    CASE cls = "\\d" -> IsDigit(c)
      [] cls = "\\D" -> ~IsDigit(c)
      [] cls = "\\w" -> IsWord(c)
      [] cls = "\\s" -> IsSpace(c)
      [] cls = "[-_]" -> IsSep(c)
      [] cls = "[-_\\s]" -> IsSepOrSpace(c)
      [] cls = "[.]" -> c = "."

\* the length of the longest run of characters of the class that starts at s[p]
RunLen(cls, s, p) ==
    CHOOSE n \in 0..(Len(s) - p + 1) :
        /\ \A k \in p..(p + n - 1) : InClass(cls, s[k])
        /\ p + n <= Len(s) => ~InClass(cls, s[p + n])

\* str.strip()
Strip(s) ==
    IF \A k \in 1..Len(s) : IsSpace(s[k]) THEN << >>
    ELSE LET first == CHOOSE k \in 1..Len(s) :
                          ~IsSpace(s[k]) /\ \A j \in 1..(k - 1) : IsSpace(s[j])
             last  == CHOOSE k \in 1..Len(s) :
                          ~IsSpace(s[k]) /\ \A j \in (k + 1)..Len(s) : IsSpace(s[j])
         IN  SubSeq(s, first, last)

\* str.lstrip('.')
LStripDots(s) == SubSeq(s, RunLen("[.]", s, 1) + 1, Len(s))

\* str.replace(x, ''), x not empty
RECURSIVE Replace(_, _)
Replace(s, x) ==
    IF Len(s) < Len(x) THEN s
    ELSE IF SubSeq(s, 1, Len(x)) = x
         THEN Replace(SubSeq(s, Len(x) + 1, Len(s)), x)
         ELSE << Head(s) >> \o Replace(Tail(s), x)

\* the largest member of a non-empty set of numbers
Max(S) == CHOOSE n \in S : \A m \in S : m <= n

-----------------------------------------------------------------------------
(* Regular expressions, as re.sub(pattern, repl, s, flags=re.IGNORECASE) uses
   them.  A compiled pattern is a record [re, lit]: re is the source text of
   the pattern, or "literal" for a pattern without special characters, whose
   text is lit. *)

Pattern(re) == [re |-> re, lit |-> << >>]

Literal(lit) == [re |-> "literal", lit |-> lit]

\* \b at the position between s[q-1] and s[q]
IsWordAt(s, k) == k \in 1..Len(s) /\ IsWord(s[k])

Boundary(s, q) == IsWordAt(s, q - 1) # IsWordAt(s, q)

\* (\w+)[-_]\1 at s[p]: the group is the longest prefix of the word run that
\* is followed by a separator and by itself
MatchRepeatedAcrossSep(s, p) ==
    LET groups == {n \in 1..RunLen("\\w", s, p) :
                      /\ p + 2 * n <= Len(s)
                      /\ IsSep(s[p + n])
                      /\ EqFold(Slice(s, p, n), Slice(s, p + n + 1, n))}
    IN  IF groups = {} THEN 0 ELSE 2 * Max(groups) + 1

\* \b(\w+)\s+\1\b at s[p]: <<n, m>> is a group length and a gap length
MatchRepeatedWord(s, p) ==
    LET tries == {t \in (1..RunLen("\\w", s, p)) \X (1..Len(s)) :
                      /\ t[2] <= RunLen("\\s", s, p + t[1])
                      /\ p + 2 * t[1] + t[2] - 1 <= Len(s)
                      /\ EqFold(Slice(s, p, t[1]), Slice(s, p + t[1] + t[2], t[1]))
                      /\ Boundary(s, p + 2 * t[1] + t[2])}
        n == Max({t[1] : t \in tries})
        m == Max({t[2] : t \in {u \in tries : u[1] = n}})
    IN  IF ~Boundary(s, p) \/ tries = {} THEN 0 ELSE 2 * n + m

\* the length of the match of the pattern that starts at s[p], 0 if there is
\* none (no pattern of the program matches the empty string)
Match(pat, s, p) ==
    CASE pat.re = "literal" ->
             IF p + Len(pat.lit) - 1 <= Len(s) /\ EqFold(Slice(s, p, Len(pat.lit)), pat.lit)
             THEN Len(pat.lit) ELSE 0
      [] pat.re = "\\d+" -> RunLen("\\d", s, p)
      [] pat.re = "\\s+" -> RunLen("\\s", s, p)
      [] pat.re = "[-_]\\d+$" ->
             IF IsSep(s[p]) /\ p < Len(s) /\ \A k \in (p + 1)..Len(s) : IsDigit(s[k])
             THEN Len(s) - p + 1 ELSE 0
      [] pat.re = "\\b(\\w+)\\s+\\1\\b" -> MatchRepeatedWord(s, p)
      [] pat.re = "(\\w+)[-_]\\1" -> MatchRepeatedAcrossSep(s, p)
      [] pat.re = "[-_]{2,}" ->
             IF RunLen("[-_]", s, p) >= 2 THEN RunLen("[-_]", s, p) ELSE 0
      [] pat.re = "^[-_]+|[-_]+$" ->
             IF p = 1 \/ p + RunLen("[-_]", s, p) - 1 = Len(s)
             THEN RunLen("[-_]", s, p) ELSE 0
      [] pat.re = "^[-_\\s]+|[-_\\s]+$" ->
             IF p = 1 \/ p + RunLen("[-_\\s]", s, p) - 1 = Len(s)
             THEN RunLen("[-_\\s]", s, p) ELSE 0

\* re.sub from s[p] on: the matches are found from left to right, without overlap
RECURSIVE SubFrom(_, _, _, _)
SubFrom(pat, repl, s, p) ==
    IF p > Len(s) THEN << >>
    ELSE IF Match(pat, s, p) > 0
         THEN repl \o SubFrom(pat, repl, s, p + Match(pat, s, p))
         ELSE << s[p] >> \o SubFrom(pat, repl, s, p + 1)

\* re.sub(pattern, repl, s, flags=re.IGNORECASE)
Sub(pat, repl, s) == SubFrom(pat, repl, s, 1)

-----------------------------------------------------------------------------
(* clean_filename *)

\* the patterns of the smart mode that can match a text of letters, digits,
\* "-", "_" and spaces; each of the other patterns of the list holds a
\* character that such a text does not have (a CJK word, a bracket, or a
\* letter of "copy", "untitled" or a storage service's name), so re.sub with
\* it returns its argument
SmartPatterns ==
    << Pattern("[-_]\\d+$"), Pattern("\\b(\\w+)\\s+\\1\\b"), Pattern("(\\w+)[-_]\\1"),
       Pattern("[-_]{2,}"), Pattern("^[-_]+|[-_]+$") >>

\* the smart mode: every pattern in turn, each on the result of the one before
RECURSIVE SubAll(_, _)
SubAll(patterns, s) ==
    IF patterns = << >> THEN s
    ELSE SubAll(Tail(patterns), Sub(Head(patterns), << >>, s))

\* the rule lines of the model
LineOpenParen == << "(" >>

LineHugeRepeat == << "a", "{", "4", "2", "9", "4", "9", "6", "7", "2", "9", "6", "}" >>

LineDigits == << "\\", "d", "+" >>

\* re.compile of a rule line: a line of letters, digits, "_" and spaces is a
\* pattern that matches itself; "(" is an unterminated group (re.error); the
\* repeat count of "a{4294967296}" is too large (OverflowError, which is not
\* an re.error)
Compile(rule) ==
    CASE rule = LineOpenParen -> [error |-> "re.error"]
      [] rule = LineHugeRepeat -> [error |-> "OverflowError"]
      [] rule = LineDigits -> [error |-> "none", pat |-> Pattern("\\d+")]
      [] OTHER -> [error |-> "none", pat |-> Literal(rule)]

\* a value returned, or an exception raised
Returned(text) == [raised |-> "none", text |-> text]

Raised(exception) == [raised |-> exception, text |-> << >>]

\* the custom text mode: every non-blank line, stripped, is removed wherever it occurs
RECURSIVE TextRules(_, _)
TextRules(rules, s) ==
    IF rules = << >> THEN s
    ELSE IF Strip(Head(rules)) = << >> THEN TextRules(Tail(rules), s)
         ELSE TextRules(Tail(rules), Replace(s, Strip(Head(rules))))

\* the custom regex mode: a line whose compilation raises re.error is skipped
\* (except re.error: continue); any other exception leaves clean_filename
RECURSIVE RegexRules(_, _)
RegexRules(rules, s) ==
    IF rules = << >> THEN Returned(s)
    ELSE LET rule == Strip(Head(rules))
         IN  IF rule = << >> THEN RegexRules(Tail(rules), s)
             ELSE IF Compile(rule).error = "re.error" THEN RegexRules(Tail(rules), s)
             ELSE IF Compile(rule).error # "none" THEN Raised(Compile(rule).error)
             ELSE RegexRules(Tail(rules), Sub(Compile(rule).pat, << >>, s))

\* post_process_cleanup
PostProcessCleanup(filename) ==
    LET f1 == Sub(Pattern("\\s+"), << " " >>, filename)
        f2 == Sub(Pattern("[-_]{2,}"), << "_" >>, f1)
        f3 == Sub(Pattern("^[-_\\s]+|[-_\\s]+$"), << >>, f2)
        f4 == Strip(Sub(Pattern("\\s+"), << " " >>, f3))
    IN  Sub(Pattern("^[-_\\s]+|[-_\\s]+$"), << >>, f4)

\* a guard that lets every result through
FinalGuardOff(original_name, cleaned_name) == Strip(cleaned_name)

\* lines 1252-1256: a result that is empty or shorter than 2 characters is
\* given up for the original name
FinalGuard(original_name, cleaned_name) ==
    IF Strip(cleaned_name) = << >> \/ Len(Strip(cleaned_name)) < 2
    THEN original_name
    ELSE Strip(cleaned_name)

\* the rules of the selected mode
ApplyMode(mode, rules, filename) ==
    CASE mode = "smart" -> Returned(SubAll(SmartPatterns, filename))
      [] mode = "text"  -> Returned(TextRules(rules, filename))
      [] mode = "regex" -> RegexRules(rules, filename)

\* lines 1250-1256: what follows the rules of the mode, whose outcome is r
AfterRules(filename, r) ==
    IF r.raised # "none" THEN r
    ELSE Returned(FinalGuard(filename, PostProcessCleanup(r.text)))

\* clean_filename(filename) under the cleanup widgets' values
CleanFilename(enabled, mode, rules, filename) ==
    IF ~enabled THEN Returned(filename)
    ELSE AfterRules(filename, ApplyMode(mode, rules, filename))

-----------------------------------------------------------------------------
(* generate_new_names *)

\* Path.suffix: the text from the last dot on, unless that dot is the first
\* or the last character of the name
LastDot(fname) ==
    IF \A k \in 1..Len(fname) : fname[k] # "." THEN 0
    ELSE CHOOSE k \in 1..Len(fname) :
             fname[k] = "." /\ \A j \in (k + 1)..Len(fname) : fname[j] # "."

Suffix(name) ==
    IF 1 < LastDot(name) /\ LastDot(name) < Len(name)
    THEN SubSeq(name, LastDot(name), Len(name)) ELSE << >>

\* Path.stem
Stem(name) ==
    IF 1 < LastDot(name) /\ LastDot(name) < Len(name)
    THEN SubSeq(name, 1, LastDot(name) - 1) ELSE name

\* str(n) of a number n >= 0
DigitChar(d) ==
    CASE d = 0 -> "0" [] d = 1 -> "1" [] d = 2 -> "2" [] d = 3 -> "3" [] d = 4 -> "4"
      [] d = 5 -> "5" [] d = 6 -> "6" [] d = 7 -> "7" [] d = 8 -> "8" [] d = 9 -> "9"

RECURSIVE ToStr(_)
ToStr(n) == IF n < 10 THEN << DigitChar(n) >>
            ELSE ToStr(n \div 10) \o << DigitChar(n % 10) >>

\* str.zfill(width) of a text without a sign
ZFill(s, width) ==
    IF Len(s) >= width THEN s ELSE [k \in 1..(width - Len(s)) |-> "0"] \o s

\* the index without the padding
IndexVarUnpadded(start_num, k, digits) == ToStr(start_num + k)

\* line 1307: str(start_num + i).zfill(digits), for the entry at position k >= 0
IndexVar(start_num, k, digits) == ZFill(ToStr(start_num + k), digits)

\* the parts of a format string: a run of plain text, a replacement field, or
\* a single brace.  A field has a key ("" for {} and "0" for {0}) and an
\* access: "none" {key}, "attr" {key.x}, "index" {key[0]}, "key" {key[k]}
Text(t) == [kind |-> "text", text |-> t, key |-> "", access |-> "none"]

Field(key, access) == [kind |-> "field", text |-> << >>, key |-> key, access |-> access]

Brace == [kind |-> "brace", text |-> << >>, key |-> "", access |-> "none"]

\* one replacement field of str.format(**format_vars): no positional argument
\* is passed, and every value is a str
FormatField(part, fv) ==
    IF part.key \in {"", "0"} THEN Raised("IndexError")
    ELSE IF part.key \notin DOMAIN fv THEN Raised("KeyError")
    ELSE CASE part.access = "none"  -> Returned(fv[part.key])
           [] part.access = "attr"  -> Raised("AttributeError")
           [] part.access = "index" -> IF fv[part.key] = << >> THEN Raised("IndexError")
                                       ELSE Returned(<< fv[part.key][1] >>)
           [] part.access = "key"   -> Raised("TypeError")

\* str.format: the parts are formatted from left to right and the first
\* error ends the call
RECURSIVE Format(_, _)
Format(parts, fv) ==
    IF parts = << >> THEN Returned(<< >>)
    ELSE LET part == Head(parts)
             this == CASE part.kind = "text"  -> Returned(part.text)
                       [] part.kind = "brace" -> Raised("ValueError")
                       [] part.kind = "field" -> FormatField(part, fv)
         IN  IF this.raised # "none" THEN this
             ELSE LET rest == Format(Tail(parts), fv)
                  IN  IF rest.raised # "none" THEN rest
                      ELSE Returned(this.text \o rest.text)

\* lines 1279-1283: an empty format stands for {name}_{index}
DefaultFormat == << Field("name", "none"), Text(<< "_" >>), Field("index", "none") >>

EffectiveFormat(fmt) == IF fmt = << >> THEN DefaultFormat ELSE fmt

\* the values of the widgets that generate_new_names and clean_filename read
Config ==
    [enable_cleanup |-> enable_cleanup, cleanup_mode |-> cleanup_mode,
     cleanup_rules |-> cleanup_rules, custom_format |-> custom_format,
     start_number |-> start_number, number_digits |-> number_digits,
     keep_extension |-> keep_extension]

\* line 1292
Extension(cfg, file_path) == IF cfg.keep_extension THEN Suffix(file_path) ELSE << >>

\* lines 1298-1313: format_vars of the entry at position k >= 0, given the
\* cleaned name.  The variables made from st_mtime (date, datetime, time,
\* year, month, day) and the rounded sizes (size_kb, size_mb) are left out.
FormatVars(cfg, dir, file_path, k, cleaned_name) ==
    [name |-> cleaned_name,
     original |-> Stem(file_path),
     index |-> IndexVar(cfg.start_number, k, cfg.number_digits),
     size |-> ToStr(dir[file_path].size),
     ext |-> LStripDots(Extension(cfg, file_path)),
     parent |-> << "d" >>]

\* the except clause of line 1318
Caught(exception) == exception \in {"KeyError", "ValueError"}

\* line 1320: the safe default name
Fallback(cfg, file_path, k) ==
    Stem(file_path) \o << "_" >> \o IndexVar(cfg.start_number, k, cfg.number_digits)
        \o Extension(cfg, file_path)

\* lines 1317-1322: the new name, given format_vars and the outcome f of
\* custom_format.format(**format_vars)
NameOfFormat(cfg, file_path, k, fv, f) ==
    IF f.raised = "none"
    THEN [raised |-> "none", new_name |-> f.text \o Extension(cfg, file_path),
          format_vars |-> fv]
    ELSE IF Caught(f.raised)
    THEN [raised |-> "none", new_name |-> Fallback(cfg, file_path, k),
          format_vars |-> fv]
    ELSE [raised |-> f.raised]

\* lines 1315-1322: the try statement
TryFormat(cfg, file_path, k, fv) ==
    NameOfFormat(cfg, file_path, k, fv, Format(EffectiveFormat(cfg.custom_format), fv))

\* lines 1292-1322: the loop body after clean_filename, whose outcome is c
NameOfCleaned(cfg, dir, file_path, k, c) ==
    IF c.raised # "none" THEN [raised |-> c.raised]
    ELSE IF file_path \notin DOMAIN dir THEN [raised |-> "FileNotFoundError"]
    ELSE TryFormat(cfg, file_path, k, FormatVars(cfg, dir, file_path, k, c.text))

\* the loop body of generate_new_names for the entry at position k >= 0:
\* the new name and format_vars, or the exception that leaves the loop
NewName(cfg, dir, file_path, k) ==
    NameOfCleaned(cfg, dir, file_path, k,
                  CleanFilename(cfg.enable_cleanup, cfg.cleanup_mode, cfg.cleanup_rules,
                                Stem(file_path)))

\* the loop of generate_new_names over the outcomes of its bodies, of which
\* those at the positions of bad raise: the first entry that raises ends the call
LoopOutcome(each, bad) ==
    IF bad = {}
    THEN [raised |-> "none",
          new_names |-> [k \in DOMAIN each |-> each[k].new_name],
          format_vars |-> [k \in DOMAIN each |-> each[k].format_vars]]
    ELSE [raised |-> each[CHOOSE k \in bad : \A j \in bad : k <= j].raised,
          new_names |-> << >>, format_vars |-> << >>]

LoopOver(each) == LoopOutcome(each, {k \in DOMAIN each : each[k].raised # "none"})

\* generate_new_names(): the list of new names and, for the claims, the list
\* of format_vars
GenerateNewNames(cfg, dir, files) ==
    LoopOver([k \in 1..Len(files) |-> NewName(cfg, dir, files[k], k - 1)])

-----------------------------------------------------------------------------
(* filter_and_sort_files *)

\* ord(c)
Ord(c) ==
    CASE c = " " -> 32 [] c = "-" -> 45 [] c = "." -> 46
      [] c = "0" -> 48 [] c = "1" -> 49 [] c = "2" -> 50 [] c = "3" -> 51
      [] c = "4" -> 52 [] c = "5" -> 53 [] c = "6" -> 54 [] c = "7" -> 55
      [] c = "8" -> 56 [] c = "9" -> 57
      [] c = "A" -> 65 [] c = "B" -> 66 [] c = "T" -> 84 [] c = "U" -> 85
      [] c = "_" -> 95
      [] c = "a" -> 97 [] c = "b" -> 98 [] c = "t" -> 116 [] c = "u" -> 117

\* int(s) of a text of digits
RECURSIVE ToInt(_)
ToInt(s) == IF s = << >> THEN 0
            ELSE 10 * ToInt(SubSeq(s, 1, Len(s) - 1)) + (Ord(s[Len(s)]) - 48)

\* A sort key is a list whose members are numbers or texts; a number n is
\* written << n >> and a text as the list of its characters' ord values, so a
\* key is a list of lists of numbers.  (Two keys of one strategy have members
\* of the same type at the same position.)
NumKey(n) == << << n >> >>

TextKey(s) == << [k \in 1..Len(s) |-> Ord(s[k])] >>

\* a < b for two numbers or two texts
MemberLess(a, b) ==
    \/ \E k \in 1..Len(a) :
          /\ k <= Len(b)
          /\ a[k] < b[k]
          /\ \A j \in 1..(k - 1) : a[j] = b[j]
    \/ Len(a) < Len(b) /\ \A j \in 1..Len(a) : a[j] = b[j]

\* a < b for two keys: Python's comparison of lists
KeyLess(a, b) ==
    \/ \E k \in 1..Len(a) :
          /\ k <= Len(b)
          /\ MemberLess(a[k], b[k])
          /\ \A j \in 1..(k - 1) : a[j] = b[j]
    \/ Len(a) < Len(b) /\ \A j \in 1..Len(a) : a[j] = b[j]

\* extract_numbers: re.findall(r'\d+', basename) as numbers, [0] if there is none
RECURSIVE DigitRuns(_)
DigitRuns(s) ==
    LET t == RunLen("\\D", s, 1)
        d == RunLen("\\d", s, t + 1)
    IN  IF t = Len(s) THEN << >>
        ELSE << << ToInt(Slice(s, t + 1, d)) >> >> \o DigitRuns(SubSeq(s, t + d + 1, Len(s)))

ExtractNumbers(filename) ==
    IF DigitRuns(filename) = << >> THEN NumKey(0) ELSE DigitRuns(filename)

\* natural_sort_key: re.split(r'(\d+)', name) with every run of digits as a number
RECURSIVE SplitDigits(_)
SplitDigits(s) ==
    LET t == RunLen("\\D", s, 1)
        d == RunLen("\\d", s, t + 1)
    IN  IF t = Len(s) THEN TextKey(s)
        ELSE TextKey(Slice(s, 1, t)) \o NumKey(ToInt(Slice(s, t + 1, d)))
                 \o SplitDigits(SubSeq(s, t + d + 1, Len(s)))

NaturalSortKey(filename) == SplitDigits(LowerText(filename))

\* os.path.splitext(basename)[1]: the text from the last dot on, unless only
\* dots come before it
SplitExt(fname) ==
    IF LastDot(fname) > 0 /\ \E k \in 1..(LastDot(fname) - 1) : fname[k] # "."
    THEN SubSeq(fname, LastDot(fname), Len(fname)) ELSE << >>

\* the items of sort_combo, in the order of the list (lines 604-613)
SortOptions ==
    << "mtime new-old", "mtime old-new", "ctime new-old", "ctime old-new",
       "name A-Z", "name Z-A", "name numeric", "name natural",
       "size large-small", "size small-large", "type A-Z", "type Z-A",
       "ext A-Z", "ext Z-A", "random" >>

\* the key= of the branch of lines 1137-1166 that the option takes
SortKey(option, dir, f) ==
    CASE option \in {"mtime new-old", "mtime old-new"} -> NumKey(dir[f].mtime)
      [] option \in {"ctime new-old", "ctime old-new"} -> NumKey(dir[f].ctime)
      [] option = "name numeric" -> ExtractNumbers(f)
      [] option = "name natural" -> NaturalSortKey(f)
      [] option \in {"name A-Z", "name Z-A"} -> TextKey(LowerText(f))
      [] option \in {"size large-small", "size small-large"} -> NumKey(dir[f].size)
      [] option \in {"type A-Z", "type Z-A"} -> TextKey(LowerText(SplitExt(f)))
      [] option \in {"ext A-Z", "ext Z-A"} -> TextKey(LowerText(Suffix(f)))

\* the reverse= of that branch
SortReverse(option) ==
    option \in {"mtime new-old", "ctime new-old", "name Z-A", "size large-small",
                "type Z-A", "ext Z-A"}

\* the key reads the file's os.stat record
KeyReadsStat(option) ==
    option \in {"mtime new-old", "mtime old-new", "ctime new-old", "ctime old-new",
                "size large-small", "size small-large"}

Reversed(list) == [k \in 1..Len(list) |-> list[Len(list) + 1 - k]]

\* list.sort(key=...): a stable sort.  x is put behind the members of the
\* sorted list whose key is not greater than its own.
RECURSIVE Insert(_, _, _)
Insert(x, sorted, keys) ==
    IF sorted = << >> THEN << x >>
    ELSE IF KeyLess(keys[x], keys[Head(sorted)]) THEN << x >> \o sorted
         ELSE << Head(sorted) >> \o Insert(x, Tail(sorted), keys)

RECURSIVE StableSort(_, _)
StableSort(list, keys) ==
    IF list = << >> THEN << >>
    ELSE Insert(list[Len(list)], StableSort(SubSeq(list, 1, Len(list) - 1), keys), keys)

\* a descending sort that sorts ascending and reverses the result
SortListReverseAfter(list, keys, reverse) ==
    IF reverse THEN Reversed(StableSort(list, keys)) ELSE StableSort(list, keys)

\* list.sort(key=..., reverse=...): with reverse the list is reversed before
\* and after the stable sort, so members with equal keys keep their order
SortList(list, keys, reverse) ==
    IF reverse THEN Reversed(StableSort(Reversed(list), keys)) ELSE StableSort(list, keys)

\* lines 1125-1132: the extension filter; parts is the text split at the commas
Extensions(parts) ==
    {IF LowerText(Strip(parts[k])) # << >> /\ Head(LowerText(Strip(parts[k]))) = "."
     THEN LowerText(Strip(parts[k]))
     ELSE << "." >> \o LowerText(Strip(parts[k])) : k \in 1..Len(parts)}

Filtered(files, parts) ==
    IF parts = << >> THEN files
    ELSE SelectSeq(files, LAMBDA f : LowerText(Suffix(f)) \in Extensions(parts))

\* the orders of a list
Orders(list) ==
    {[k \in 1..Len(list) |-> list[q[k]]] :
        q \in {r \in [1..Len(list) -> 1..Len(list)] :
                  \A j, k \in 1..Len(list) : j # k => r[j] # r[k]}}

\* filter_and_sort_files: the values filtered_files may get (one value, unless
\* the option is the shuffle), or the exception of a key that reads the stat
\* record of a file that is gone
FilterAndSortFiles(files, parts, option, dir) ==
    LET filtered == Filtered(files, parts)
        keys == [f \in {filtered[k] : k \in 1..Len(filtered)} |-> SortKey(option, dir, f)]
    IN  IF files = << >> THEN [raised |-> "none", lists |-> {<< >>}]
        ELSE IF option = "random" THEN [raised |-> "none", lists |-> Orders(filtered)]
        ELSE IF KeyReadsStat(option) /\ \E k \in 1..Len(filtered) : filtered[k] \notin DOMAIN dir
        THEN [raised |-> "FileNotFoundError", lists |-> {}]
        ELSE [raised |-> "none", lists |-> {SortList(filtered, keys, SortReverse(option))}]

-----------------------------------------------------------------------------
(* Initial states, and the names the model's folders and plans are drawn from *)

\* the names the folders and the plans of the execution model are drawn from:
\* a.txt, b.txt, a_1.txt, a_backup.txt
ExecNames == { Nm("a", << >>, ".txt"), Nm("b", << >>, ".txt"),
               Nm("a", <<1>>, ".txt"), Nm("a", <<0>>, ".txt") }

\* the names of the preview model: a.txt, A.txt, b.txt
PreviewNames == { Nm("a", << >>, ".txt"), Nm("A", << >>, ".txt"),
                  Nm("b", << >>, ".txt") }

\* the content a file has when the model starts: a number of its own
Content0(p) ==
    CASE p = Nm("a", << >>, ".txt") -> 1
      [] p = Nm("b", << >>, ".txt") -> 2
      [] p = Nm("a", <<1>>, ".txt") -> 3
      [] p = Nm("a", <<0>>, ".txt") -> 4
      [] p = Nm("A", << >>, ".txt") -> 5
      [] OTHER -> 0

\* the sequences of n distinct members of S
DistinctSeqs(S, n) == {q \in [1..n -> S] : \A j, k \in 1..n : j # k => q[j] # q[k]}

NoEntry == [pre |-> [p \in {} |-> 0], mid |-> [p \in {} |-> 0], src_existed |-> FALSE, backup_path |-> NoName,
            backed_up |-> FALSE, unlinked |-> FALSE]

\* BatchRenameApp.__init__ for the planning variables, group by group
NoScan ==
    /\ folder = [f \in {} |-> 0]
    /\ file_list = << >>
    /\ scan_error = FALSE

NoPlan ==
    /\ filtered_files = << >>
    /\ gen_names = << >>

FilterDefaults ==
    /\ sort_option = SortOptions[1]
    /\ extension_filter = << >>

CleanupDefaults ==
    /\ enable_cleanup = FALSE
    /\ cleanup_mode = "smart"
    /\ cleanup_rules = << >>

RenameDefaults ==
    /\ custom_format = << Field("name", "none") >>
    /\ start_number = 1
    /\ number_digits = 3
    /\ keep_extension = TRUE

\* the main window is in front and execute_rename has not run
NoSession ==
    /\ ui = "main"
    /\ run_conflicts = << >>
    /\ batches = 0

\* no call of clean_filename or generate_new_names has been observed
NoCall ==
    /\ stem = << >>
    /\ cleaned = << >>
    /\ format_vars = << >>
    /\ raised = "none"

\* BatchRenameApp.__init__: no folder is loaded, the table is empty and no
\* worker exists; the folder to be loaded holds some files, and the user has
\* set the policy check boxes
InitOver(Names) ==
    /\ \E S \in SUBSET Names :
          /\ S # {}
          /\ disk = [p \in S |-> Content0(p)]
    /\ filtered_files = << >>
    /\ gen_names = << >>
    /\ checked = << >>
    /\ conflicts = << >>
    /\ backup_original \in BOOLEAN
    /\ overwrite_existing \in BOOLEAN
    /\ case_sensitive \in BOOLEAN
    /\ timer_active = FALSE
    /\ execute_enabled = TRUE
    /\ sel_files = << >>
    /\ sel_names = << >>
    /\ w_files = << >>
    /\ w_names = << >>
    /\ w_backup = FALSE
    /\ w_overwrite = FALSE
    /\ total_files = 0
    /\ NoScan
    /\ FilterDefaults
    /\ CleanupDefaults
    /\ RenameDefaults
    /\ NoCall
    /\ NoSession
    /\ pc = "empty"
    /\ i = 0
    /\ new_path = NoName
    /\ success_count = 0
    /\ progress = << >>
    /\ finished = << >>
    /\ entry = NoEntry
    /\ log = << >>
    /\ ops = << >>
    /\ removed = 0

Init == InitOver(ExecNames) /\ case_sensitive = FALSE

InitPreview == InitOver(PreviewNames) /\ backup_original = FALSE

-----------------------------------------------------------------------------
(* The user *)

workerVars == << w_files, w_names, w_backup, w_overwrite, total_files, i, new_path,
                 success_count, progress, finished, entry, log, ops >>

\* load_folder: scan_files, then refresh_preview.  The plan is a list of
\* distinct files of the folder: those the extension filter keeps, in the order
\* of the sort strategy (any order: the strategies include the modification
\* time and a shuffle).  The new names are what the template, the cleanup
\* rules and the counter make of them: any names.  Every row is checked and
\* the status column shows check_conflicts' result.
LoadFolder(Names) ==
    /\ pc = "empty"
    /\ \E n \in 1..MaxFiles :
          /\ filtered_files' \in DistinctSeqs(DOMAIN disk, n)
          /\ gen_names' \in [1..n -> Names]
          /\ checked' = [k \in 1..n |-> TRUE]
    /\ conflicts' = CheckConflicts(gen_names', DOMAIN disk, overwrite_existing)
    /\ timer_active' = FALSE
    /\ pc' = "idle"
    /\ UNCHANGED << disk, backup_original, overwrite_existing, case_sensitive,
                    execute_enabled, sel_files, sel_names, removed >>
    /\ UNCHANGED workerVars
    /\ UNCHANGED planVars
    /\ UNCHANGED sessionVars

\* a check box of the preview table is clicked
ToggleRow(k) ==
    /\ pc = "idle"
    /\ k \in 1..Len(checked)
    /\ checked' = [checked EXCEPT ![k] = ~checked[k]]
    /\ UNCHANGED << disk, filtered_files, gen_names, conflicts, backup_original,
                    overwrite_existing, case_sensitive, timer_active,
                    execute_enabled, sel_files, sel_names, pc, removed >>
    /\ UNCHANGED workerVars
    /\ UNCHANGED planVars
    /\ UNCHANGED sessionVars

\* execute_rename up to its dialogs.  generate_new_names calls os.stat on every
\* file of the plan, so the handler gets this far only when they all exist.
ExecuteRename ==
    /\ pc = "idle"
    /\ execute_enabled
    /\ filtered_files # << >>
    /\ \A k \in 1..Len(filtered_files) : Exists(disk, filtered_files[k])
    /\ Pick(filtered_files, checked) # << >>
    /\ sel_files' = Pick(filtered_files, checked)
    /\ sel_names' = Pick(gen_names, checked)
    /\ pc' = "confirm"
    /\ UNCHANGED << disk, execute_enabled, removed >>
    /\ UNCHANGED appVars
    /\ UNCHANGED workerVars
    /\ UNCHANGED planVars
    /\ UNCHANGED sessionVars

\* a dialog of execute_rename is answered No
ConfirmNo ==
    /\ pc = "confirm"
    /\ pc' = "idle"
    /\ sel_files' = << >>
    /\ sel_names' = << >>
    /\ UNCHANGED << disk, execute_enabled, removed >>
    /\ UNCHANGED appVars
    /\ UNCHANGED workerVars
    /\ UNCHANGED planVars
    /\ UNCHANGED sessionVars

\* the dialogs are answered Yes: start_rename_process builds and starts the worker
StartRenameProcess ==
    /\ pc = "confirm"
    /\ execute_enabled' = FALSE
    /\ w_files' = sel_files
    /\ w_names' = sel_names
    /\ w_backup' = backup_original
    /\ w_overwrite' = overwrite_existing
    /\ total_files' = Len(sel_files)
    /\ i' = 1
    /\ pc' = "backup"
    /\ UNCHANGED << disk, sel_files, sel_names, removed, new_path, success_count,
                    progress, finished, entry, log, ops >>
    /\ UNCHANGED appVars
    /\ UNCHANGED planVars
    /\ UNCHANGED sessionVars

\* another program removes a selected file while the dialogs are open (the
\* removal of any other file leads to a folder some initial state starts with)
ExternalRemove ==
    /\ pc = "confirm"
    /\ removed < MaxRemoved
    /\ \E k \in 1..Len(sel_files) :
          /\ Exists(disk, sel_files[k])
          /\ disk' = Del(disk, sel_files[k])
    /\ removed' = removed + 1
    /\ UNCHANGED << execute_enabled, sel_files, sel_names, pc >>
    /\ UNCHANGED appVars
    /\ UNCHANGED workerVars
    /\ UNCHANGED planVars
    /\ UNCHANGED sessionVars

-----------------------------------------------------------------------------
(* RenameWorker.run, one step per file operation of the loop body *)

restOfApp == << filtered_files, gen_names, checked, conflicts, backup_original,
                overwrite_existing, case_sensitive, timer_active, execute_enabled,
                sel_files, sel_names, removed >>

\* the record the observation log keeps of entry i when the loop leaves it
LogRecord(ent, outcome, stage, path, post, emitted) ==
    [k |-> i, src |-> w_files[i], target |-> w_names[i], path |-> path,
     outcome |-> outcome, stage |-> stage, pre |-> ent.pre, mid |-> ent.mid,
     post |-> post,
     src_existed |-> ent.src_existed, backup_path |-> ent.backup_path,
     backed_up |-> ent.backed_up, unlinked |-> ent.unlinked, emitted |-> emitted]

\* the loop body raised at `stage`: the except clause prints and the loop goes on
Raise(ent, stage, path) ==
    /\ log' = Append(log, LogRecord(ent, "failed", stage, path, disk, FALSE))
    /\ pc' = AfterException(i, Len(w_files))
    /\ i' = IF AfterException(i, Len(w_files)) = "backup" THEN i + 1 ELSE i
    /\ entry' = ent
    /\ UNCHANGED << disk, success_count, progress, finished, ops >>

\* a worker that goes on with the entry when its backup copy has failed
CopyFailureIgnored(ent) ==
    /\ entry' = ent
    /\ pc' = "resolve"
    /\ UNCHANGED << disk, i, success_count, progress, finished, log, ops >>

\* line 406: shutil.copy2 raises, and the rest of the loop body is skipped
CopyRaises(ent) == Raise(ent, "backup", w_names[i])

\* the loop body ran to its end: the progress event is emitted
Complete(ent, outcome, post) ==
    /\ log' = Append(log, LogRecord(ent, outcome, "none", new_path, post, TRUE))
    /\ progress' = Append(progress, Progress(i, total_files))
    /\ pc' = NextEntry(i, Len(w_files))
    /\ i' = IF NextEntry(i, Len(w_files)) = "backup" THEN i + 1 ELSE i
    /\ entry' = ent
    /\ UNCHANGED finished

\* lines 396-406: old_file, new_path, and the backup copy
WorkerBackup ==
    /\ pc = "backup"
    /\ LET old_file == w_files[i]
           ent == [pre |-> disk, mid |-> disk,
                   src_existed |-> Exists(disk, old_file),
                   backup_path |-> NoName, backed_up |-> FALSE, unlinked |-> FALSE]
           backup_path == BackupPath(disk, old_file)
       IN  /\ new_path' = w_names[i]
           /\ \/ /\ w_backup /\ Exists(disk, old_file)
                 /\ \/ /\ disk' = Put(disk, backup_path, disk[old_file])
                       /\ entry' = [ent EXCEPT !.backup_path = backup_path,
                                               !.backed_up = TRUE,
                                               !.mid = disk']
                       /\ ops' = Append(ops, [k |-> i, op |-> "copy"])
                       /\ pc' = "resolve"
                       /\ UNCHANGED << i, success_count, progress, finished, log >>
                    \/ CopyRaises(ent)
              \/ /\ ~(w_backup /\ Exists(disk, old_file))
                 /\ entry' = ent
                 /\ pc' = "resolve"
                 /\ UNCHANGED << disk, i, success_count, progress, finished, log, ops >>
    /\ UNCHANGED workerArgs
    /\ UNCHANGED restOfApp
    /\ UNCHANGED planVars
    /\ UNCHANGED sessionVars

\* lines 408-421: the free name is probed for, or the target is deleted
WorkerResolve ==
    /\ pc = "resolve"
    /\ LET old_file == w_files[i]
       IN  \/ /\ ~w_overwrite
              /\ new_path' = ResolvePath(disk, old_file, new_path)
              /\ pc' = "rename"
              /\ UNCHANGED << disk, i, success_count, progress, finished, entry,
                              log, ops >>
           \/ /\ w_overwrite
              /\ MustUnlink(disk, old_file, new_path)
              /\ \/ /\ disk' = Del(disk, new_path)
                    /\ entry' = [entry EXCEPT !.unlinked = TRUE]
                    /\ ops' = Append(ops, [k |-> i, op |-> "unlink"])
                    /\ pc' = "rename"
                    /\ UNCHANGED << i, new_path, success_count, progress, finished,
                                    log >>
                 \/ /\ Raise(entry, "unlink", new_path)
                    /\ UNCHANGED new_path
           \/ /\ w_overwrite
              /\ ~MustUnlink(disk, old_file, new_path)
              /\ pc' = "rename"
              /\ UNCHANGED << disk, i, new_path, success_count, progress, finished,
                              entry, log, ops >>
    /\ UNCHANGED workerArgs
    /\ UNCHANGED restOfApp
    /\ UNCHANGED planVars
    /\ UNCHANGED sessionVars

\* lines 423-429: the rename, the success count and the progress event
WorkerRename ==
    /\ pc = "rename"
    /\ LET old_file == w_files[i]
           moved == Put(Del(disk, old_file), new_path, disk[old_file])
       IN  \/ /\ old_file # new_path
              /\ Exists(disk, old_file)
              /\ \/ /\ disk' = moved
                    /\ success_count' = success_count + 1
                    /\ ops' = Append(ops, [k |-> i, op |-> "rename"])
                    /\ Complete(entry, "renamed", moved)
                 \/ Raise(entry, "rename", new_path)
           \/ /\ old_file # new_path
              /\ ~Exists(disk, old_file)
              /\ Raise(entry, "rename", new_path)
           \/ /\ old_file = new_path
              /\ Complete(entry, "noop", disk)
              /\ UNCHANGED << disk, success_count, ops >>
    /\ UNCHANGED new_path
    /\ UNCHANGED workerArgs
    /\ UNCHANGED restOfApp
    /\ UNCHANGED planVars
    /\ UNCHANGED sessionVars

\* line 437: the terminal event
WorkerFinish ==
    /\ pc = "finish"
    /\ finished' = Append(finished, [success |-> TRUE, succeeded |-> success_count,
                                     total |-> Len(w_files)])
    /\ pc' = "done"
    /\ UNCHANGED << disk, i, new_path, success_count, progress, entry, log, ops >>
    /\ UNCHANGED workerArgs
    /\ UNCHANGED restOfApp
    /\ UNCHANGED planVars
    /\ UNCHANGED sessionVars

Next ==
    \/ LoadFolder(ExecNames)
    \/ \E k \in 1..MaxFiles : ToggleRow(k)
    \/ ExecuteRename
    \/ ConfirmNo
    \/ StartRenameProcess
    \/ ExternalRemove
    \/ WorkerBackup
    \/ WorkerResolve
    \/ WorkerRename
    \/ WorkerFinish

Spec == Init /\ [][Next]_vars

-----------------------------------------------------------------------------
(* The preview: the debounced refresh and the policy check boxes *)

previewRest == << disk, execute_enabled, sel_files, sel_names, pc, removed >>

\* overwrite_existing.toggled -> schedule_refresh
ToggleOverwrite ==
    /\ pc = "idle"
    /\ overwrite_existing' = ~overwrite_existing
    /\ timer_active' = TRUE
    /\ UNCHANGED << filtered_files, gen_names, checked, conflicts, backup_original,
                    case_sensitive >>
    /\ UNCHANGED previewRest
    /\ UNCHANGED workerVars
    /\ UNCHANGED planVars
    /\ UNCHANGED sessionVars

\* case_sensitive.toggled -> schedule_refresh
ToggleCaseSensitive ==
    /\ pc = "idle"
    /\ case_sensitive' = ~case_sensitive
    /\ timer_active' = TRUE
    /\ UNCHANGED << filtered_files, gen_names, checked, conflicts, backup_original,
                    overwrite_existing >>
    /\ UNCHANGED previewRest
    /\ UNCHANGED workerVars
    /\ UNCHANGED planVars
    /\ UNCHANGED sessionVars

\* refresh_timer.timeout -> refresh_preview.  The file list and the rest of the
\* configuration are as they were, so filter_and_sort_files and
\* generate_new_names give the plan and the names again; the table is rebuilt
\* with every row checked and the status column from check_conflicts.
RefreshPreview ==
    /\ pc = "idle"
    /\ timer_active
    /\ \A k \in 1..Len(filtered_files) : Exists(disk, filtered_files[k])
    /\ timer_active' = FALSE
    /\ conflicts' = CheckConflicts(gen_names, DOMAIN disk, overwrite_existing)
    /\ checked' = [k \in 1..Len(filtered_files) |-> TRUE]
    /\ UNCHANGED << filtered_files, gen_names, backup_original, overwrite_existing,
                    case_sensitive >>
    /\ UNCHANGED previewRest
    /\ UNCHANGED workerVars
    /\ UNCHANGED planVars
    /\ UNCHANGED sessionVars

NextPreview ==
    \/ LoadFolder(PreviewNames)
    \/ \E k \in 1..MaxFiles : ToggleRow(k)
    \/ ToggleOverwrite
    \/ ToggleCaseSensitive
    \/ RefreshPreview

SpecPreview == InitPreview /\ [][NextPreview]_vars

-----------------------------------------------------------------------------
(* clean_filename as a function of the name and of the cleanup widgets *)

\* the variables of the preview table and of the batch, which planning leaves alone
batchVars == << disk, checked, conflicts, backup_original, overwrite_existing,
                case_sensitive, execute_enabled, sel_files, sel_names, removed >>

\* BatchRenameApp.__init__ for those variables, with an empty folder
NoBatch ==
    /\ disk = [p \in {} |-> 0]
    /\ checked = << >>
    /\ conflicts = << >>
    /\ backup_original = FALSE
    /\ overwrite_existing = FALSE
    /\ case_sensitive = FALSE
    /\ timer_active = FALSE
    /\ execute_enabled = TRUE
    /\ sel_files = << >>
    /\ sel_names = << >>
    /\ w_files = << >>
    /\ w_names = << >>
    /\ w_backup = FALSE
    /\ w_overwrite = FALSE
    /\ total_files = 0
    /\ i = 0
    /\ new_path = NoName
    /\ success_count = 0
    /\ progress = << >>
    /\ finished = << >>
    /\ entry = NoEntry
    /\ log = << >>
    /\ ops = << >>
    /\ removed = 0
    /\ NoSession

\* the texts of 0..n characters of C
Texts(C, n) == UNION {[1..m -> C] : m \in 0..n}

\* the characters of the stems: a letter in both cases, a digit, a separator, a space
StemChars == {"a", "A", "1", "_", " "}

\* the stems: Path.stem of a file name is not empty
Stems == Texts(StemChars, MaxStem) \ {<< >>}

\* the lines of the rules box: texts to remove, a blank line, a pattern with a
\* class, and two lines that re.compile rejects
RuleLines == {<< "a" >>, << "_" >>, << " " >>, LineDigits, LineOpenParen, LineHugeRepeat}

\* the values of the cleanup widgets: off, the smart mode, and the two custom
\* modes with every list of at most MaxRules lines
CleanupSettings ==
    {[enabled |-> FALSE, mode |-> "smart", rules |-> << >>],
     [enabled |-> TRUE, mode |-> "smart", rules |-> << >>]}
    \cup {[enabled |-> TRUE, mode |-> m, rules |-> r] :
              m \in {"text", "regex"}, r \in Texts(RuleLines, MaxRules)}

InitClean ==
    /\ NoBatch
    /\ NoScan
    /\ NoPlan
    /\ FilterDefaults
    /\ RenameDefaults
    /\ pc = "clean"
    /\ stem \in Stems
    /\ cleaned = << >>
    /\ format_vars = << >>
    /\ raised = "none"
    /\ \E c \in CleanupSettings :
          /\ enable_cleanup = c.enabled
          /\ cleanup_mode = c.mode
          /\ cleanup_rules = c.rules

\* clean_filename(stem) is called
CallCleanFilename ==
    /\ pc = "clean"
    /\ \E r \in {CleanFilename(enable_cleanup, cleanup_mode, cleanup_rules, stem)} :
          /\ cleaned' = r.text
          /\ raised' = r.raised
    /\ pc' = "cleaned"
    /\ UNCHANGED << filtered_files, gen_names, timer_active, folder, file_list,
                    scan_error, sort_option, extension_filter, enable_cleanup,
                    cleanup_mode, cleanup_rules, stem, custom_format, start_number,
                    number_digits, keep_extension, format_vars >>
    /\ UNCHANGED batchVars
    /\ UNCHANGED sessionVars
    /\ UNCHANGED workerVars

NextClean == CallCleanFilename

SpecClean == InitClean /\ [][NextClean]_vars

-----------------------------------------------------------------------------
(* generate_new_names as a function of the plan and of the rename widgets *)

\* the files of the plans: a.t, b (no extension), ab_1.u
NameFiles == {<< "a", ".", "t" >>, << "b" >>, << "a", "b", "_", "1", ".", "u" >>}

\* the parts of the format strings
FormatParts ==
    {Text(<< "x" >>), Brace,
     Field("name", "none"), Field("original", "none"), Field("index", "none"),
     Field("ext", "none"), Field("foo", "none"), Field("", "none"), Field("0", "none"),
     Field("name", "attr"), Field("name", "index"), Field("ext", "index"),
     Field("name", "key")}

\* the format strings: empty, one part, two parts
Formats ==
    {<< >>} \cup {<< p >> : p \in FormatParts}
            \cup {<< p, q >> : p \in FormatParts, q \in FormatParts}

\* values of the two spin boxes, within their ranges 0..9999 and 1..6
StartNumbers == {0, 1, 99, 9999}

DigitWidths == {1, 3, 6}

\* the plan is the file list in the order of the scan: the default sort is by
\* modification time, and the files have the same one
InitNames ==
    /\ NoBatch
    /\ FilterDefaults
    /\ NoCall
    /\ pc = "names"
    /\ folder = [f \in NameFiles |-> [mtime |-> 1, ctime |-> 1, size |-> 12]]
    /\ \E n \in 1..MaxFiles : filtered_files \in DistinctSeqs(NameFiles, n)
    /\ file_list = filtered_files
    /\ scan_error = FALSE
    /\ gen_names = << >>
    /\ custom_format \in Formats
    /\ start_number \in StartNumbers
    /\ number_digits \in DigitWidths
    /\ keep_extension \in BOOLEAN
    /\ enable_cleanup \in BOOLEAN
    /\ cleanup_mode = "smart"
    /\ cleanup_rules = << >>

\* generate_new_names() is called
CallGenerateNewNames ==
    /\ pc = "names"
    /\ \E g \in {GenerateNewNames(Config, folder, filtered_files)} :
          /\ gen_names' = g.new_names
          /\ format_vars' = g.format_vars
          /\ raised' = g.raised
    /\ pc' = "named"
    /\ UNCHANGED << filtered_files, timer_active, folder, file_list, scan_error,
                    sort_option, extension_filter, enable_cleanup, cleanup_mode,
                    cleanup_rules, stem, cleaned, custom_format, start_number,
                    number_digits, keep_extension >>
    /\ UNCHANGED batchVars
    /\ UNCHANGED sessionVars
    /\ UNCHANGED workerVars

NextNames == CallGenerateNewNames

SpecNames == InitNames /\ [][NextNames]_vars

-----------------------------------------------------------------------------
(* filter_and_sort_files as a function of the file list and of the filter widgets *)

\* the files of the folders: a1.t, A1.t, a10.u, b
SortFiles == {<< "a", "1", ".", "t" >>, << "A", "1", ".", "t" >>,
              << "a", "1", "0", ".", "u" >>, << "b" >>}

\* os.stat records: two files tie on a stat key when their records are equal,
\* and on the creation time always
StatRecords == {[mtime |-> 1, ctime |-> 1, size |-> 2], [mtime |-> 2, ctime |-> 1, size |-> 1]}

\* the folders of at most MaxFolder files
Folders(Files, Stats) ==
    UNION {[S -> Stats] : S \in {T \in SUBSET Files : T # {} /\ Cardinality(T) <= MaxFolder}}

\* the lists of all the members of a set, in every order
Listings(S) == {q \in [1..Cardinality(S) -> S] : \A j, k \in DOMAIN q : j # k => q[j] # q[k]}

\* texts of the extension filter, split at the commas: blank, "t", ".T, u"
FilterTexts == {<< >>, << << "t" >> >>, << << ".", "T" >>, << " ", "u" >> >>}

InitSort ==
    /\ NoBatch
    /\ NoPlan
    /\ CleanupDefaults
    /\ RenameDefaults
    /\ NoCall
    /\ pc = "sort"
    /\ scan_error = FALSE
    /\ folder \in Folders(SortFiles, StatRecords)
    /\ file_list \in Listings(DOMAIN folder)
    /\ sort_option \in {SortOptions[k] : k \in 1..Len(SortOptions)}
    /\ extension_filter \in FilterTexts

\* filter_and_sort_files() is called
CallFilterAndSortFiles ==
    /\ pc = "sort"
    /\ \E r \in {FilterAndSortFiles(file_list, extension_filter, sort_option, folder)} :
          /\ raised' = r.raised
          /\ IF r.raised = "none" THEN filtered_files' \in r.lists
             ELSE UNCHANGED filtered_files
    /\ pc' = "sorted"
    /\ UNCHANGED << gen_names, timer_active, folder, file_list, scan_error,
                    sort_option, extension_filter, enable_cleanup, cleanup_mode,
                    cleanup_rules, stem, cleaned, custom_format, start_number,
                    number_digits, keep_extension, format_vars >>
    /\ UNCHANGED batchVars
    /\ UNCHANGED sessionVars
    /\ UNCHANGED workerVars

NextSort == CallFilterAndSortFiles

SpecSort == InitSort /\ [][NextSort]_vars

-----------------------------------------------------------------------------
(* load_folder: scan_files, then the first refresh_preview *)

InitScan ==
    /\ NoBatch
    /\ NoPlan
    /\ FilterDefaults
    /\ CleanupDefaults
    /\ RenameDefaults
    /\ NoCall
    /\ pc = "empty"
    /\ folder \in Folders(SortFiles, StatRecords)
    /\ file_list = << >>
    /\ scan_error = FALSE

\* scan_files over a folder whose entries iterdir gives in the order
\* `listing`: every entry is a regular file and is appended, until iterdir or
\* is_file raises after `read` entries (read = Len(listing): no failure)
ScanFiles(listing, read) == SubSeq(listing, 1, read)

\* load_folder.  The listing order is the file system's; the scan may fail at
\* any entry (os.listdir raising before the first one, is_file raising on a
\* later one), and the except clause shows a warning.  refresh_preview then
\* plans from the file list as the scan left it.
LoadFolderScan ==
    /\ pc = "empty"
    /\ \E listing \in Listings(DOMAIN folder) :
       \E read \in 0..Len(listing) :
          /\ file_list' = ScanFiles(listing, read)
          /\ scan_error' = (read < Len(listing))
    /\ \E list \in FilterAndSortFiles(file_list', extension_filter, sort_option, folder).lists :
       \E g \in {GenerateNewNames(Config, folder, list)} :
          /\ filtered_files' = list
          /\ gen_names' = g.new_names
          /\ format_vars' = g.format_vars
          /\ raised' = g.raised
    /\ checked' = [k \in 1..Len(gen_names') |-> TRUE]
    /\ conflicts' = CheckConflicts(gen_names', DOMAIN folder, overwrite_existing)
    /\ timer_active' = FALSE
    /\ pc' = "idle"
    /\ UNCHANGED << disk, backup_original, overwrite_existing, case_sensitive,
                    execute_enabled, sel_files, sel_names, removed >>
    /\ UNCHANGED << folder, sort_option, extension_filter, enable_cleanup,
                    cleanup_mode, cleanup_rules, stem, cleaned, custom_format,
                    start_number, number_digits, keep_extension >>
    /\ UNCHANGED workerVars
    /\ UNCHANGED sessionVars

NextScan == LoadFolderScan

SpecScan == InitScan /\ [][NextScan]_vars

-----------------------------------------------------------------------------
(* The progress events of a batch whose entries all run to the end of the loop
   body: every file of the folder is selected and keeps its name *)

\* the files a_1.txt .. a_n.txt
Numbered(n) == [k \in 1..n |-> Nm("a", << k >>, ".txt")]

\* the state start_rename_process leaves, for a plan that renames each of the
\* n files of the folder to its own name
InitProgress ==
    /\ NoScan
    /\ FilterDefaults
    /\ CleanupDefaults
    /\ RenameDefaults
    /\ NoCall
    /\ \E n \in 1..MaxTotal :
          /\ disk = [p \in {Numbered(n)[k] : k \in 1..n} |-> 1]
          /\ filtered_files = Numbered(n)
          /\ total_files = n
    /\ gen_names = filtered_files
    /\ checked = [k \in 1..Len(filtered_files) |-> TRUE]
    /\ overwrite_existing \in BOOLEAN
    /\ conflicts = CheckConflicts(gen_names, DOMAIN disk, overwrite_existing)
    /\ backup_original = FALSE
    /\ case_sensitive = FALSE
    /\ timer_active = FALSE
    /\ execute_enabled = FALSE
    /\ sel_files = filtered_files
    /\ sel_names = gen_names
    /\ w_files = sel_files
    /\ w_names = sel_names
    /\ w_backup = backup_original
    /\ w_overwrite = overwrite_existing
    /\ pc = "backup"
    /\ i = 1
    /\ new_path = NoName
    /\ success_count = 0
    /\ progress = << >>
    /\ finished = << >>
    /\ entry = NoEntry
    /\ log = << >>
    /\ ops = << >>
    /\ removed = 0
    /\ ui = "main"
    /\ run_conflicts = conflicts
    /\ batches = 1

NextProgress ==
    \/ WorkerBackup
    \/ WorkerResolve
    \/ WorkerRename
    \/ WorkerFinish

SpecProgress == InitProgress /\ [][NextProgress]_vars

-----------------------------------------------------------------------------
(* A session: the user at the main window and in the modal dialogs, the
   refresh timer, and one worker after another.  pc is "empty" until a folder
   is loaded, "idle" while no worker runs, the worker's position while one
   runs, and "done" from the terminal event to its receipt. *)

\* the names the folders and the plans of the session are drawn from: a.txt, b.txt
SessionNames == { Nm("a", << >>, ".txt"), Nm("b", << >>, ".txt") }

\* the planning variables but the exception of the last refresh
planRest == << folder, file_list, scan_error, sort_option, extension_filter,
               enable_cleanup, cleanup_mode, cleanup_rules, stem, cleaned,
               custom_format, start_number, number_digits, keep_extension,
               format_vars >>

\* `if conflicts`: the dict check_conflicts returned has a key
HasConflicts(found) == \E k \in 1..Len(found) : found[k] # "none"

\* an execute_rename that decides on the status column of the table
ConflictsShown(new_names, existing_files, overwrite, shown) == shown

\* line 1479: the conflicts execute_rename decides on; `shown` is the status
\* column the last refresh_preview left in the table
ConflictsAtExecution(new_names, existing_files, overwrite, shown) ==
    CheckConflicts(new_names, existing_files, overwrite)

\* an execute button that stays enabled
ButtonLeftEnabled == TRUE

\* lines 1514-1515: execute_btn.isEnabled() after start_rename_process
ButtonAtStart == FALSE

\* refresh_preview: the exception that leaves it, "none" if it returns.  With
\* no folder loaded os.listdir("") raises in check_conflicts (line 1339); when
\* a file of the plan is gone os.path.getmtime raises in the sort (line 1138)
\* or os.stat in generate_new_names (line 1295).
RefreshOutcome(loaded, d, files) ==
    IF ~loaded THEN "FileNotFoundError"
    ELSE IF \E k \in 1..Len(files) : ~Exists(d, files[k]) THEN "FileNotFoundError"
    ELSE "none"

InitSession ==
    /\ InitOver(SessionNames)
    /\ backup_original = FALSE
    /\ case_sensitive = FALSE

\* overwrite_existing.toggled -> schedule_refresh, whenever the main window
\* takes input
OverwriteToggled ==
    /\ ui = "main"
    /\ overwrite_existing' = ~overwrite_existing
    /\ timer_active' = TRUE
    /\ UNCHANGED << filtered_files, gen_names, checked, conflicts, backup_original,
                    case_sensitive >>
    /\ UNCHANGED << disk, execute_enabled, sel_files, sel_names, pc, removed >>
    /\ UNCHANGED workerVars
    /\ UNCHANGED planVars
    /\ UNCHANGED sessionVars

\* refresh_timer.timeout -> refresh_preview, in the event loop of the main
\* window or of a modal dialog.  The file list is the one of the last scan and
\* the filter, the sort and the template are as they were: when the call
\* returns, the table is rebuilt over the same plan with every row checked;
\* when it raises, filtered_files and the table are as they were.
TimerRefresh ==
    /\ timer_active
    /\ timer_active' = FALSE
    /\ raised' = RefreshOutcome(pc # "empty", disk, filtered_files)
    /\ IF raised' = "none"
       THEN /\ conflicts' = CheckConflicts(gen_names, DOMAIN disk, overwrite_existing)
            /\ checked' = [k \in 1..Len(filtered_files) |-> TRUE]
       ELSE UNCHANGED << conflicts, checked >>
    /\ UNCHANGED << filtered_files, gen_names, backup_original, overwrite_existing,
                    case_sensitive >>
    /\ UNCHANGED << disk, execute_enabled, sel_files, sel_names, pc, removed >>
    /\ UNCHANGED workerVars
    /\ UNCHANGED planRest
    /\ UNCHANGED sessionVars

\* execute_btn.clicked -> execute_rename, up to its first question.  The two
\* warnings (no file, no row checked) and a generate_new_names that raises
\* leave the state as it was.
ClickExecute ==
    /\ ui = "main"
    /\ execute_enabled
    /\ filtered_files # << >>
    /\ \A k \in 1..Len(filtered_files) : Exists(disk, filtered_files[k])
    /\ Pick(filtered_files, checked) # << >>
    /\ sel_files' = Pick(filtered_files, checked)
    /\ sel_names' = Pick(gen_names, checked)
    /\ run_conflicts' = ConflictsAtExecution(gen_names, DOMAIN disk, overwrite_existing,
                                             conflicts)
    /\ ui' = IF HasConflicts(run_conflicts') /\ ~overwrite_existing
             THEN "conflicts" ELSE "confirm"
    /\ UNCHANGED << disk, execute_enabled, pc, removed, batches >>
    /\ UNCHANGED appVars
    /\ UNCHANGED workerVars
    /\ UNCHANGED planVars

\* lines 1481-1485: the question about the conflicts is answered Yes
ContinueDespiteConflicts ==
    /\ ui = "conflicts"
    /\ ui' = "confirm"
    /\ UNCHANGED << disk, execute_enabled, sel_files, sel_names, pc, removed,
                    run_conflicts, batches >>
    /\ UNCHANGED appVars
    /\ UNCHANGED workerVars
    /\ UNCHANGED planVars

\* a question of execute_rename is answered No
AnswerNo ==
    /\ ui \in {"conflicts", "confirm"}
    /\ ui' = "main"
    /\ sel_files' = << >>
    /\ sel_names' = << >>
    /\ UNCHANGED << disk, execute_enabled, pc, removed, run_conflicts, batches >>
    /\ UNCHANGED appVars
    /\ UNCHANGED workerVars
    /\ UNCHANGED planVars

\* the confirmation is answered Yes: start_rename_process makes a new worker
\* and starts it
AnswerYes ==
    /\ ui = "confirm"
    /\ batches < MaxBatches
    /\ ui' = "main"
    /\ execute_enabled' = ButtonAtStart
    /\ w_files' = sel_files
    /\ w_names' = sel_names
    /\ w_backup' = backup_original
    /\ w_overwrite' = overwrite_existing
    /\ total_files' = Len(sel_files)
    /\ i' = 1
    /\ pc' = "backup"
    /\ new_path' = NoName
    /\ success_count' = 0
    /\ progress' = << >>
    /\ finished' = << >>
    /\ entry' = NoEntry
    /\ log' = << >>
    /\ ops' = << >>
    /\ batches' = batches + 1
    /\ UNCHANGED << disk, sel_files, sel_names, removed, run_conflicts >>
    /\ UNCHANGED appVars
    /\ UNCHANGED planVars

\* finished -> rename_finished, up to its message box (lines 1539-1551)
ReceiveFinished ==
    /\ pc = "done"
    /\ pc' = "idle"
    /\ execute_enabled' = TRUE
    /\ ui' = "report"
    /\ UNCHANGED << disk, sel_files, sel_names, removed, run_conflicts, batches >>
    /\ UNCHANGED appVars
    /\ UNCHANGED workerVars
    /\ UNCHANGED planVars

\* the message box is closed: scan_files and refresh_preview (lines 1553-1554).
\* The plan is made anew from the folder as LoadFolder makes it; the timer is
\* left as it is.
CloseReport ==
    /\ ui = "report"
    /\ ui' = "main"
    /\ \E n \in 1..MaxFiles :
          /\ filtered_files' \in DistinctSeqs(DOMAIN disk, n)
          /\ gen_names' \in [1..n -> SessionNames]
          /\ checked' = [k \in 1..n |-> TRUE]
    /\ conflicts' = CheckConflicts(gen_names', DOMAIN disk, overwrite_existing)
    /\ UNCHANGED << backup_original, overwrite_existing, case_sensitive, timer_active >>
    /\ UNCHANGED << disk, execute_enabled, sel_files, sel_names, pc, removed,
                    run_conflicts, batches >>
    /\ UNCHANGED workerVars
    /\ UNCHANGED planVars

NextSession ==
    \/ LoadFolder(SessionNames)
    \/ OverwriteToggled
    \/ TimerRefresh
    \/ ClickExecute
    \/ ContinueDespiteConflicts
    \/ AnswerNo
    \/ AnswerYes
    \/ WorkerBackup
    \/ WorkerResolve
    \/ WorkerRename
    \/ WorkerFinish
    \/ ReceiveFinished
    \/ CloseReport

SpecSession == InitSession /\ [][NextSession]_vars

-----------------------------------------------------------------------------
(* Planning: the settings change, the debounced refresh follows them, and the
   execute button is clicked at any moment.  The folder is as load_folder
   scanned it; names are lists of characters. *)

\* the sort strategies the user switches between: by time, by name, by name
\* in reverse
SortChoices == {SortOptions[1], SortOptions[5], SortOptions[6]}

\* the name formats the user switches between: {name} and {name}_{index}
FormatChoices == {<< Field("name", "none") >>, DefaultFormat}

\* the files of the folders: a1.t, a10.u, b
PlanFiles == {<< "a", "1", ".", "t" >>, << "a", "1", "0", ".", "u" >>, << "b" >>}

\* no folder is loaded; the one to load holds files of the same age and size
InitPlan ==
    /\ NoBatch
    /\ NoPlan
    /\ FilterDefaults
    /\ CleanupDefaults
    /\ RenameDefaults
    /\ NoCall
    /\ pc = "empty"
    /\ folder \in Folders(PlanFiles, {[mtime |-> 1, ctime |-> 1, size |-> 2]})
    /\ file_list = << >>
    /\ scan_error = FALSE

\* sort_combo.currentTextChanged -> schedule_refresh
ChangeSort(option) ==
    /\ pc = "idle"
    /\ ui = "main"
    /\ sort_option' = option
    /\ timer_active' = TRUE
    /\ UNCHANGED << folder, file_list, scan_error, extension_filter, enable_cleanup,
                    cleanup_mode, cleanup_rules, stem, cleaned, custom_format,
                    start_number, number_digits, keep_extension, format_vars, raised >>
    /\ UNCHANGED << filtered_files, gen_names, checked, conflicts, backup_original,
                    overwrite_existing, case_sensitive >>
    /\ UNCHANGED << disk, execute_enabled, sel_files, sel_names, pc, removed >>
    /\ UNCHANGED workerVars
    /\ UNCHANGED sessionVars

\* extension_filter.textChanged -> schedule_refresh
ChangeExtensionFilter(parts) ==
    /\ pc = "idle"
    /\ ui = "main"
    /\ extension_filter' = parts
    /\ timer_active' = TRUE
    /\ UNCHANGED << folder, file_list, scan_error, sort_option, enable_cleanup,
                    cleanup_mode, cleanup_rules, stem, cleaned, custom_format,
                    start_number, number_digits, keep_extension, format_vars, raised >>
    /\ UNCHANGED << filtered_files, gen_names, checked, conflicts, backup_original,
                    overwrite_existing, case_sensitive >>
    /\ UNCHANGED << disk, execute_enabled, sel_files, sel_names, pc, removed >>
    /\ UNCHANGED workerVars
    /\ UNCHANGED sessionVars

\* custom_format.textChanged -> schedule_refresh
ChangeFormat(fmt) ==
    /\ pc = "idle"
    /\ ui = "main"
    /\ custom_format' = fmt
    /\ timer_active' = TRUE
    /\ UNCHANGED << folder, file_list, scan_error, sort_option, extension_filter,
                    enable_cleanup, cleanup_mode, cleanup_rules, stem, cleaned,
                    start_number, number_digits, keep_extension, format_vars, raised >>
    /\ UNCHANGED << filtered_files, gen_names, checked, conflicts, backup_original,
                    overwrite_existing, case_sensitive >>
    /\ UNCHANGED << disk, execute_enabled, sel_files, sel_names, pc, removed >>
    /\ UNCHANGED workerVars
    /\ UNCHANGED sessionVars

\* refresh_timer.timeout -> refresh_preview over the file list of the scan.
\* filter_and_sort_files assigns filtered_files when its sort has returned;
\* the table is rebuilt, every row checked, when generate_new_names and
\* check_conflicts have returned.
PlanRefresh ==
    /\ pc = "idle"
    /\ timer_active
    /\ timer_active' = FALSE
    /\ \E r \in {FilterAndSortFiles(file_list, extension_filter, sort_option, folder)} :
          IF r.raised # "none"
          THEN /\ raised' = r.raised
               /\ UNCHANGED << filtered_files, gen_names, format_vars, checked, conflicts >>
          ELSE \E list \in r.lists :
               \E g \in {GenerateNewNames(Config, folder, list)} :
                  /\ filtered_files' = list
                  /\ raised' = g.raised
                  /\ IF g.raised = "none"
                     THEN /\ gen_names' = g.new_names
                          /\ format_vars' = g.format_vars
                          /\ checked' = [k \in 1..Len(list) |-> TRUE]
                          /\ conflicts' = CheckConflicts(g.new_names, DOMAIN folder,
                                                         overwrite_existing)
                     ELSE UNCHANGED << gen_names, format_vars, checked, conflicts >>
    /\ UNCHANGED << folder, file_list, scan_error, sort_option, extension_filter,
                    enable_cleanup, cleanup_mode, cleanup_rules, stem, cleaned,
                    custom_format, start_number, number_digits, keep_extension >>
    /\ UNCHANGED << backup_original, overwrite_existing, case_sensitive >>
    /\ UNCHANGED << disk, execute_enabled, sel_files, sel_names, pc, removed >>
    /\ UNCHANGED workerVars
    /\ UNCHANGED sessionVars

\* execute_btn.clicked -> execute_rename, up to its first question:
\* get_selected_files takes the files of the checked rows from filtered_files
\* and their names from a new call of generate_new_names (lines 1452-1464)
RequestExecution ==
    /\ pc = "idle"
    /\ ui = "main"
    /\ execute_enabled
    /\ filtered_files # << >>
    /\ Pick(filtered_files, checked) # << >>
    /\ \E g \in {GenerateNewNames(Config, folder, filtered_files)} :
          /\ g.raised = "none"
          /\ sel_files' = Pick(filtered_files, checked)
          /\ sel_names' = Pick(g.new_names, checked)
          /\ run_conflicts' = ConflictsAtExecution(g.new_names, DOMAIN folder,
                                                   overwrite_existing, conflicts)
    /\ ui' = IF HasConflicts(run_conflicts') /\ ~overwrite_existing
             THEN "conflicts" ELSE "confirm"
    /\ UNCHANGED << disk, execute_enabled, pc, removed, batches >>
    /\ UNCHANGED appVars
    /\ UNCHANGED workerVars
    /\ UNCHANGED planVars

NextPlan ==
    \/ LoadFolderScan
    \/ \E option \in SortChoices : ChangeSort(option)
    \/ \E parts \in FilterTexts : ChangeExtensionFilter(parts)
    \/ \E fmt \in FormatChoices : ChangeFormat(fmt)
    \/ PlanRefresh
    \/ \E k \in 1..MaxFolder : ToggleRow(k)
    \/ RequestExecution
    \/ ContinueDespiteConflicts
    \/ AnswerNo

SpecPlan == InitPlan /\ [][NextPlan]_vars

-----------------------------------------------------------------------------
(* Properties of the execution (Spec) *)

Running == pc \in {"backup", "resolve", "rename"}

Started == pc \in {"backup", "resolve", "rename", "finish", "done"}

LogIdx == 1..Len(log)

\* the entry completed without raising
Done(r) == r.outcome \in {"renamed", "noop"}

\* the least n >= 1 for which P(n) holds, among 1..bound
Least(P(_), bound) == CHOOSE n \in 1..bound : P(n) /\ \A m \in 1..(n - 1) : ~P(m)

\* the file name carries the "_backup" tag
IsBackupName(p) == \E t \in 1..Len(p.tags) : p.tags[t] = 0

\* C1: a failure in one entry (backup copy, deletion of the target, rename)
\* never aborts the batch: once an entry that is not the last has failed, the
\* loop is at a later entry, and when the batch is over every entry of the
\* selected plan has been attempted, in order.
C1_FailureNeverAborts ==
    /\ \A n \in LogIdx :
          (log[n].outcome = "failed" /\ log[n].k < Len(w_files)) => i > log[n].k
    /\ pc \in {"finish", "done"} =>
          /\ Len(log) = Len(w_files)
          /\ \A n \in LogIdx : log[n].k = n /\ log[n].src = w_files[n]

C1_Witness ==
    /\ pc = "done"
    /\ Len(w_files) = 2
    /\ log[1].outcome = "failed"
    /\ log[1].stage = "unlink"
    /\ log[2].outcome = "renamed"

\* the case of C2: no overwrite, the source existed, the target existed when
\* the conflict was resolved and was not the source, and neither the copy nor
\* the rename raised
C2_Case(r) ==
    /\ ~w_overwrite
    /\ Exists(r.mid, r.src)
    /\ Exists(r.mid, r.target)
    /\ r.target # r.src
    /\ Done(r)

\* C2 as stated: the source is renamed to <target-stem>_N<target-ext> for the
\* smallest N >= 1 whose path is free, and the existing file stays at the
\* target path with its content.
C2_SuffixIsSmallestFree ==
    \A n \in LogIdx :
        LET r == log[n]
            Free(c) == ~Exists(r.mid, AddTag(r.target, c))
            N == Least(Free, Cardinality(DOMAIN r.mid) + 1)
        IN  C2_Case(r) =>
              /\ r.outcome = "renamed"
              /\ r.path = AddTag(r.target, N)
              /\ Exists(r.post, r.path) /\ r.post[r.path] = r.mid[r.src]
              /\ Exists(r.post, r.target) /\ r.post[r.target] = r.mid[r.target]

\* C2 amended: N is the smallest N >= 1 whose path is free or is the source's
\* own path; in the second case no rename is performed and the source keeps
\* its name.  The rename never lands on an existing file, and every other file
\* of the folder, the one at the target path included, keeps its content.
C2_SuffixIsSmallestFreeOrOwn ==
    \A n \in LogIdx :
        LET r == log[n]
            FreeOrOwn(c) == ~Exists(r.mid, AddTag(r.target, c))
                            \/ AddTag(r.target, c) = r.src
            N == Least(FreeOrOwn, Cardinality(DOMAIN r.mid) + 1)
        IN  C2_Case(r) =>
              /\ r.path = AddTag(r.target, N)
              /\ (r.outcome = "noop") = (r.path = r.src)
              /\ r.outcome = "renamed" => ~Exists(r.mid, r.path)
              /\ Exists(r.post, r.path) /\ r.post[r.path] = r.mid[r.src]
              /\ DOMAIN r.post = (DOMAIN r.mid \ {r.src}) \cup {r.path}
              /\ \A q \in DOMAIN r.mid \ {r.src} : r.post[q] = r.mid[q]

C2_Witness ==
    \E n \in LogIdx :
        /\ C2_Case(log[n])
        /\ log[n].outcome = "renamed"
        /\ log[n].path = AddTag(log[n].target, 2)

\* the backup path of C3: <stem>_backup<ext> when that was free in folder d,
\* otherwise <stem>_backup_N<ext> for the smallest N >= 1 that was free
C3_IsBackupPathOf(bp, src, d) ==
    LET first == AddTag(src, 0)
        Free(c) == ~Exists(d, AddTag(first, c))
    IN  IF ~Exists(d, first)
        THEN bp = first
        ELSE bp = AddTag(first, Least(Free, Cardinality(DOMAIN d) + 1))

C4_BackupsSurvive ==
    w_backup =>
      \A n \in LogIdx :
        LET r == log[n]
        IN  (Done(r) /\ r.backed_up /\ Exists(r.post, r.backup_path)
                     /\ r.post[r.backup_path] = r.pre[r.src]) =>
              /\ Exists(disk, r.backup_path)
              /\ disk[r.backup_path] = r.pre[r.src]
              /\ pc = "done" =>
                    \E q \in DOMAIN disk : IsBackupName(q) /\ disk[q] = r.pre[r.src]

\* C5: the worker's lists are the plan with the unchecked rows removed, in
\* plan order, and the entries are processed one at a time in that order:
\* while entry i is processed the entries before it, and only they, have been
\* left, and no file operation of a later entry precedes one of an earlier.
C5_PlanOrderOneAtATime ==
    Started =>
      /\ \E f \in [1..Len(w_files) -> 1..Len(filtered_files)] :
            /\ \A a, b \in 1..Len(w_files) : a < b => f[a] < f[b]
            /\ {f[a] : a \in 1..Len(w_files)} =
                  {k \in 1..Len(filtered_files) : checked[k]}
            /\ \A a \in 1..Len(w_files) :
                  w_files[a] = filtered_files[f[a]] /\ w_names[a] = gen_names[f[a]]
      /\ Len(w_names) = Len(w_files)
      /\ \A n \in LogIdx : log[n].k = n
      /\ Running => Len(log) = i - 1
      /\ \A a, b \in 1..Len(ops) : a < b => ops[a].k <= ops[b].k
      /\ \A a \in 1..Len(ops) : ops[a].k <= i

C5_Witness ==
    /\ pc = "done"
    /\ Len(filtered_files) = 2
    /\ Len(w_files) = 2
    /\ \E a, b \in 1..Len(ops) : ops[a].k = 1 /\ ops[b].k = 2

\* C9 as stated: the success count reported at the end includes every entry
\* whose source and resolved target were the same path (a no-op), as well as
\* every entry that was renamed.
C9_NoOpCountsAsSuccess ==
    pc = "done" =>
      finished[1].succeeded = Cardinality({n \in LogIdx : Done(log[n])})

\* C10 as stated: a batch of n entries has produced n progress events when
\* the terminal event is emitted, one per entry, failed entries included.
C10_OneProgressEventPerEntry ==
    /\ Started => Len(progress) = Len(log)
    /\ pc = "done" => Len(progress) = Len(w_files)

-----------------------------------------------------------------------------
(* Properties of the conflict detector (SpecPreview) *)

Rows == 1..Len(gen_names)

\* the status column is the one computed from the present configuration
Fresh == ~timer_active

\* C6: a row is flagged as duplicate exactly when another row of the plan
\* has the same new name, whether overwriting is allowed or not.
C6_DuplicatesFlagged ==
    /\ Len(conflicts) = Len(gen_names)
    /\ \A k \in Rows :
          (conflicts[k] = "duplicate") =
              (\E j \in Rows : j # k /\ gen_names[j] = gen_names[k])

C6_Witness ==
    /\ pc = "idle"
    /\ Fresh
    /\ overwrite_existing
    /\ Len(gen_names) = 2
    /\ gen_names[1] = gen_names[2]
    /\ gen_names[1] \in DOMAIN disk
    /\ conflicts = << "duplicate", "duplicate" >>

\* C7 as stated: a row is flagged as existing on disk exactly when
\* overwriting is not allowed, its new name is unique in the plan, and the new
\* name is the name of a file of the folder that is not a source of the plan.
C7_ExistsOnDiskExcludesSources ==
    (pc = "idle" /\ Fresh) =>
      \A k \in Rows :
        (conflicts[k] = "exists") =
            (/\ ~overwrite_existing
             /\ \A j \in Rows : j # k => gen_names[j] # gen_names[k]
             /\ gen_names[k] \in DOMAIN disk
             /\ \A j \in 1..Len(filtered_files) : filtered_files[j] # gen_names[k])

\* C8 as stated, case-insensitive half: with case_sensitive off, two new names
\* that differ only in letter case are flagged as duplicates of each other,
\* and, when overwriting is not allowed, a new name that differs only in
\* letter case from a file of the folder is flagged.
C8_CaseInsensitiveWhenOff ==
    (pc = "idle" /\ Fresh /\ ~case_sensitive) =>
      \A k \in Rows :
        /\ (\E j \in Rows : j # k /\ Lower(gen_names[j]) = Lower(gen_names[k]))
              => conflicts[k] = "duplicate"
        /\ (/\ ~overwrite_existing
            /\ \E q \in DOMAIN disk : Lower(q) = Lower(gen_names[k]))
              => conflicts[k] # "none"

-----------------------------------------------------------------------------
(* Properties of generate_new_names (SpecNames) *)

PlanRows == 1..Len(filtered_files)

\* generate_new_names has returned a list
Named == pc = "named" /\ raised = "none"

\* the variables of a format string
KnownKeys == {"name", "original", "index", "size", "ext", "parent"}

\* every part is plain text or {key} with a known key
WellFormed(fmt) ==
    \A k \in 1..Len(fmt) :
        \/ fmt[k].kind = "text"
        \/ fmt[k].kind = "field" /\ fmt[k].key \in KnownKeys /\ fmt[k].access = "none"

\* the extension of a file without its leading dot
ExtOf(file_path) == IF Suffix(file_path) = << >> THEN << >> ELSE Tail(Suffix(file_path))

\* the number of decimal digits of n
DecimalWidth(n) == CHOOSE d \in 1..5 : n < 10^d /\ (d = 1 \/ n >= 10^(d - 1))

\* s is the decimal numeral of n, padded with zeros on the left to `width`
\* characters when it is shorter
IsPaddedNumeral(s, n, width) ==
    /\ \A k \in 1..Len(s) : IsDigit(s[k])
    /\ ToInt(s) = n
    /\ Len(s) = IF DecimalWidth(n) > width THEN DecimalWidth(n) ELSE width

\* C11 as stated: generate_new_names raises for no format string, and a
\* format string that is not well formed (an unknown key, a single brace, {}
\* or {0}, an attribute or an index on a variable) gives every entry the name
\* <original stem>_<padded index>, plus the extension when keep_extension is set.
C11_SynthesizeNeverRaises ==
    pc = "named" =>
      /\ raised = "none"
      /\ ~WellFormed(EffectiveFormat(custom_format)) =>
            \A k \in PlanRows :
                gen_names[k] =
                    Stem(filtered_files[k]) \o << "_" >>
                      \o ZFill(ToStr(start_number + k - 1), number_digits)
                      \o (IF keep_extension THEN Suffix(filtered_files[k]) ELSE << >>)

\* C14: the index variable of the k-th entry of the plan (k from 0, over every
\* filtered file) is the decimal numeral of start_number + k, padded with
\* zeros on the left to number_digits characters.
C14_IndexIsStartPlusPosition ==
    Named =>
      /\ Len(format_vars) = Len(filtered_files)
      /\ \A k \in PlanRows :
            IsPaddedNumeral(format_vars[k].index, start_number + (k - 1), number_digits)

\* two entries, 99 and 100, with a width of 3: the first is padded
C14_Witness ==
    /\ Named
    /\ Len(filtered_files) >= 2
    /\ start_number = 99 /\ number_digits = 3
    /\ format_vars[1].index = << "0", "9", "9" >>
    /\ format_vars[2].index = << "1", "0", "0" >>
    /\ custom_format = << Field("index", "none") >>
    /\ gen_names[2] = format_vars[2].index \o (IF keep_extension THEN Suffix(filtered_files[2]) ELSE << >>)

\* C15 as stated: the variable ext of every entry is the file's extension
\* without its dot, whether keep_extension is set or not.
C15_ExtIsTheExtension ==
    Named => \A k \in PlanRows : format_vars[k].ext = ExtOf(filtered_files[k])

-----------------------------------------------------------------------------
(* Properties of clean_filename (SpecClean) *)

\* clean_filename has returned a value
Cleaned == pc = "cleaned" /\ raised = "none"

\* the cleaned result that the final guard of an enabled cleanup looks at
Candidate ==
    Strip(PostProcessCleanup(ApplyMode(cleanup_mode, cleanup_rules, stem).text))

\* the rule lines that compile
ValidLines ==
    SelectSeq(cleanup_rules, LAMBDA line : Compile(Strip(line)).error = "none")

\* C12 as stated: clean_filename never returns an empty or a one-character
\* text, and returns the original stem when the cleaned result is one.
C12_NeverShorterThanTwo ==
    Cleaned =>
      /\ Len(cleaned) >= 2
      /\ (enable_cleanup /\ Len(Candidate) < 2) => cleaned = stem

\* C12, amended: clean_filename never returns an empty text, returns a
\* one-character text only when that is the original stem, and returns the
\* original stem when the cleaned result is empty or one character long.
C12_ShortOnlyIfOriginal ==
    Cleaned =>
      /\ cleaned # << >>
      /\ Len(cleaned) < 2 => cleaned = stem
      /\ (enable_cleanup /\ Len(Candidate) < 2) => cleaned = stem

\* a stem of three characters whose cleaned result is too short
C12_Witness ==
    /\ Cleaned
    /\ enable_cleanup
    /\ Len(stem) = 3
    /\ Len(Candidate) < 2
    /\ cleaned = stem

\* C13 as stated: in the custom regex mode the lines that do not compile are
\* skipped, and the result is that of the list of the lines that compile.
C13_InvalidLinesSkipped ==
    (pc = "cleaned" /\ enable_cleanup /\ cleanup_mode = "regex") =>
      /\ raised = "none"
      /\ cleaned = CleanFilename(TRUE, "regex", ValidLines, stem).text

-----------------------------------------------------------------------------
(* Properties of filter_and_sort_files (SpecSort) *)

\* the file passes the extension filter
InFilter(f) ==
    \/ extension_filter = << >>
    \/ \E k \in 1..Len(extension_filter) :
          LET part == LowerText(Strip(extension_filter[k]))
          IN  LowerText(Suffix(f)) =
                  IF part # << >> /\ part[1] = "." THEN part ELSE << "." >> \o part

\* the position of a file in the file list
Discovery(f) == CHOOSE k \in 1..Len(file_list) : file_list[k] = f

KeyOf(f) == SortKey(sort_option, folder, f)

\* C17: for every strategy but the shuffle, filtered_files is a permutation of
\* the files that pass the filter, in the order of the strategy's key
\* (ascending or descending), and files with equal keys are in the order of
\* the file list, in a descending sort too.
C17_StableSortByKey ==
    (pc = "sorted" /\ sort_option # "random") =>
      /\ raised = "none"
      /\ {filtered_files[k] : k \in PlanRows} =
             {file_list[k] : k \in {j \in 1..Len(file_list) : InFilter(file_list[j])}}
      /\ \A j, k \in PlanRows : j # k => filtered_files[j] # filtered_files[k]
      /\ \A j, k \in PlanRows :
            j < k =>
              LET a == KeyOf(filtered_files[j])
                  b == KeyOf(filtered_files[k])
              IN  /\ IF SortReverse(sort_option) THEN ~KeyLess(a, b) ELSE ~KeyLess(b, a)
                  /\ a = b => Discovery(filtered_files[j]) < Discovery(filtered_files[k])

\* a descending sort of three files, two of them with equal keys, that moved
\* the third in front of them
C17_Witness ==
    /\ pc = "sorted"
    /\ SortReverse(sort_option)
    /\ Len(filtered_files) = 3
    /\ KeyOf(filtered_files[2]) = KeyOf(filtered_files[3])
    /\ KeyOf(filtered_files[1]) # KeyOf(filtered_files[2])
    /\ file_list[3] = filtered_files[1]

-----------------------------------------------------------------------------
(* Properties of scan_files (SpecScan) *)

\* C18 as stated: a scan that failed leaves no entry in the file list.
C18_NoPartialList ==
    (pc = "idle" /\ scan_error) => file_list = << >>

-----------------------------------------------------------------------------
(* Properties of the execution (Spec), continued *)

\* the backup of the entry was due and was not made: the copy raised
CopyFailed(r) == w_backup /\ r.src_existed /\ ~r.backed_up

\* the file at path p is in d and e with the same content, or in neither
SameAt(d, e, p) ==
    IF Exists(d, p) THEN Exists(e, p) /\ e[p] = d[p] ELSE ~Exists(e, p)

\* C19: an entry whose backup copy fails is not renamed (the source keeps its
\* name and content, the target is neither deleted nor replaced), is not
\* counted as a success, and the batch goes on with the next entry.
C19_NoRenameWithoutBackup ==
    /\ \A n \in LogIdx :
          CopyFailed(log[n]) =>
            /\ log[n].outcome = "failed"
            /\ log[n].stage = "backup"
            /\ ~log[n].unlinked
            /\ SameAt(log[n].pre, log[n].post, log[n].src)
            /\ SameAt(log[n].pre, log[n].post, log[n].target)
            /\ log[n].k < Len(w_files) => i > log[n].k
    /\ pc \in {"resolve", "rename"} => ~CopyFailed(entry)
    /\ Started => success_count = Cardinality({n \in LogIdx : log[n].outcome = "renamed"})

\* the first backup copy failed and the second entry was renamed
C19_Witness ==
    /\ pc = "done"
    /\ Len(w_files) = 2
    /\ CopyFailed(log[1])
    /\ log[2].outcome = "renamed"
    /\ finished[1].succeeded = 1

\* C20 as stated: when the batch ends every entry is either counted as a
\* success or recorded as a failure, so the two numbers add up to the total.
C20_EveryEntryAccounted ==
    pc = "done" =>
      finished[1].succeeded + Cardinality({n \in LogIdx : log[n].outcome = "failed"})
          = finished[1].total

-----------------------------------------------------------------------------
(* Properties of the progress events (SpecProgress) *)

\* 100 * k / n rounded to the nearest integer
Rounded(k, n) == (200 * k + n) \div (2 * n)

\* the records of the entries that emitted their progress event, in order
Emitting == SelectSeq(log, LAMBDA r : r.emitted)

\* C23: the percentage of the progress event emitted after the k-th of n
\* entries is 100 * k / n rounded to the nearest integer.
C23_PercentIsRounded ==
    /\ Len(progress) = Len(Emitting)
    /\ \A j \in 1..Len(progress) : progress[j] = Rounded(Emitting[j].k, total_files)

-----------------------------------------------------------------------------
(* Properties of the folder during a batch (Spec) *)

\* the folder when the batch started
AtStart ==
    IF log # << >> THEN log[1].pre
    ELSE IF pc \in {"resolve", "rename"} THEN entry.pre
    ELSE disk

\* the sources of the batch
Sources == {w_files[k] : k \in 1..Len(w_files)}

\* the file at p, with content c, is in d
Holds(d, p, c) == Exists(d, p) /\ d[p] = c

\* the paths the batch has renamed a source to
ResolvedPaths == {log[n].path : n \in {m \in LogIdx : log[m].outcome = "renamed"}}

\* C27 as stated: without overwrite, in every state of a batch every file of
\* the folder at the start of the batch is still there with its content,
\* under its old name or, for a selected source, under the resolved target
\* name of its own entry.
C27_ContentUnderOwnTarget ==
    (Started /\ ~w_overwrite) =>
      \A p \in DOMAIN AtStart :
         \/ Holds(disk, p, AtStart[p])
         \/ \E n \in LogIdx :
               /\ log[n].src = p
               /\ log[n].outcome = "renamed"
               /\ Holds(disk, log[n].path, AtStart[p])

\* C27: without overwrite, in every state of a batch every file of the folder
\* at the start of the batch is still there with its content: under its old
\* name if it is not a source of the batch, and otherwise under its old name
\* or under a name the batch has renamed a source to.
C27_NoContentLost ==
    (Started /\ ~w_overwrite) =>
      \A p \in DOMAIN AtStart :
         \/ Holds(disk, p, AtStart[p])
         \/ /\ p \in Sources
            /\ \E q \in ResolvedPaths : Holds(disk, q, AtStart[p])

\* two entries with the same target name were both renamed, and a third
\* file of the folder was left alone
C27_Witness ==
    /\ pc = "done"
    /\ ~w_overwrite
    /\ Len(w_files) = 2
    /\ w_names[1] = w_names[2]
    /\ log[1].outcome = "renamed"
    /\ log[2].outcome = "renamed"
    /\ log[1].path # log[2].path
    /\ \A p \in DOMAIN AtStart : \E q \in DOMAIN disk : disk[q] = AtStart[p]

\* the sources of the entries after entry n
LaterSources(n) == {w_files[k] : k \in (n + 1)..Len(w_files)}

\* the paths the entries before entry n renamed their sources to
EarlierResults(n) == {log[m].path : m \in {j \in 1..(n - 1) : log[j].outcome = "renamed"}}

\* C28 as stated: with overwrite, a file the batch deletes to make room for a
\* target was in the folder before the batch with that content and is not a
\* source of the plan; it is not the source of an entry still to be
\* processed, and it is not a file an earlier entry was renamed to.
C28_DeletesOnlyOutsiders ==
    (Started /\ w_overwrite) =>
      \A n \in LogIdx :
         log[n].unlinked =>
            /\ Holds(AtStart, log[n].target, log[n].mid[log[n].target])
            /\ log[n].target \notin Sources
            /\ log[n].target \notin LaterSources(n)
            /\ log[n].target \notin EarlierResults(n)

\* C29 as stated: an entry that fails leaves the folder as it was when the
\* entry started: no file at its target path has been deleted and no backup
\* copy has been added.
C29_FailedEntryLeavesNoTrace ==
    \A n \in LogIdx :
       log[n].outcome = "failed" =>
          /\ log[n].post = log[n].pre
          /\ ~log[n].unlinked
          /\ ~log[n].backed_up

-----------------------------------------------------------------------------
(* Properties of the session (SpecSession) *)

\* C22: recomputing the preview never raises: not before a folder is loaded,
\* not after files of the last scan were renamed or removed, not while a
\* batch is in flight.
C22_RefreshNeverRaises == raised = "none"

\* a run of refresh_preview started by the refresh timer
RefreshRan == timer_active /\ ~timer_active' /\ pc' = pc

\* C21: a started batch ends with exactly one terminal event and no progress
\* event follows it; on its receipt execution is enabled again and the
\* folder is scanned again before the preview is computed again.
C21_TerminalThenRescan ==
    [][ /\ (pc' \in {"backup", "resolve", "rename", "finish"} => finished' = << >>)
        /\ (pc' = "done" => Len(finished') = 1)
        /\ (pc = "done" => progress' = progress)
        /\ (pc = "done" /\ pc' # "done" => execute_enabled')
        /\ (ui = "report" => ~RefreshRan) ]_vars

\* C24: the click on the execute button recomputes the conflicts from the
\* names, the folder and the overwrite setting of that moment, and that result
\* (not the status column of the last preview) decides whether the question
\* about conflicts is asked; a worker starts only from the confirmation that
\* follows.
C24_ConflictsRecomputedAtExecution ==
    [][ /\ (ui = "main" /\ ui' \in {"conflicts", "confirm"} =>
              /\ run_conflicts' = CheckConflicts(gen_names, DOMAIN disk, overwrite_existing)
              /\ (ui' = "conflicts") =
                    (HasConflicts(CheckConflicts(gen_names, DOMAIN disk, overwrite_existing))
                        /\ ~overwrite_existing))
        /\ (batches' # batches => ui = "confirm") ]_vars

\* the question about conflicts is open although the preview shows none: the
\* overwrite box was cleared and the refresh is still pending
C24_Witness ==
    /\ ui = "conflicts"
    /\ timer_active
    /\ ~HasConflicts(conflicts)
    /\ HasConflicts(run_conflicts)

\* a worker is between its start and the receipt of its terminal event
InFlight == pc \in {"backup", "resolve", "rename", "finish", "done"}

\* C25: while a worker is in flight no other worker is started, the lists
\* and flags it was given stay as they are, and nothing but a worker in
\* flight changes the folder.
C25_OneWorkerInFlight ==
    [][ /\ (InFlight => batches' = batches /\ UNCHANGED workerArgs)
        /\ (disk' # disk => InFlight) ]_vars

\* the second worker of the session is renaming, and a setting was changed
\* meanwhile
C25_Witness == batches = 2 /\ pc = "rename" /\ timer_active

-----------------------------------------------------------------------------
(* Properties of the plan handed to the worker (SpecPlan) *)

\* C26: the pairs that wait for the confirmation are rows of one plan made
\* wholesale from the settings of the moment the button was clicked: the
\* filter and the sort of those settings give the files and their order, the
\* format gives their names.
C26_BatchIsOnePlan ==
    ui \in {"conflicts", "confirm"} =>
        \E list \in FilterAndSortFiles(file_list, extension_filter, sort_option, folder).lists :
        \E rows \in [1..Len(list) -> BOOLEAN] :
            /\ sel_files = Pick(list, rows)
            /\ sel_names = Pick(GenerateNewNames(Config, folder, list).new_names, rows)

=============================================================================
